---- MODULE Spec2Model ----
(***************************************************************************)
(* State-machine model of the gsm2blog autoposter: the de-duplication      *)
(* ledger (SQLite table `posted`, or posted.json), and the run loop that   *)
(* takes feed items through rewrite -> publish -> markPosted.              *)
(*                                                                         *)
(* Two specifications share the ledger operators:                          *)
(*   SpecLedger  the ledger store alone, called by two processes           *)
(*   Spec        one process running processOnce / fetchAndPost            *)
(***************************************************************************)
EXTENDS Integers, Sequences, FiniteSets, TLC

----------------------------------------------------------------------------
(* JavaScript / SQL values                                                 *)

\* A property the feed item does not have (JS undefined).
Undefined == "undefined"
\* SQL NULL, and `null` in JSON.
Null == "NULL"

\* JS `a || b` on strings: the first operand unless it is falsy.
JsOr(a, b) == IF a = Undefined \/ a = Null \/ a = "" THEN b ELSE a

\* better-sqlite3 binds undefined and null as SQL NULL.
Bind(v) == IF v = Undefined \/ v = Null THEN Null ELSE v

\* SQL three-valued comparison and disjunction.
SqlEq(a, b) ==
    IF a = Null \/ b = Null THEN "unknown"
    ELSE IF a = b THEN "true" ELSE "false"

SqlOr(x, y) ==
    IF x = "true" \/ y = "true" THEN "true"
    ELSE IF x = "unknown" \/ y = "unknown" THEN "unknown"
    ELSE "false"

----------------------------------------------------------------------------
(* The ledger store                                                        *)

\* The variants of the repository that the model covers.
\*   app    src/app.js (and the identical "2nd app.js")
\*   brand  the image-branding variant
\*   multi  the multi-feed, multi-key variant
\*   json   the posted.json variant
\*   dbjs   the db.js ledger module (no caller in the sources)
SqliteVariants == {"app", "brand", "multi", "dbjs"}

\* Columns of table `posted` declared UNIQUE by CREATE TABLE.
UniqueColumns(v) == IF v = "dbjs" THEN {"guid"} ELSE {"guid", "link"}

\* WHERE guid = ? OR link = ?  evaluated on one row.
RowMatches(row, x) == SqlOr(SqlEq(row.guid, Bind(x)), SqlEq(row.link, Bind(x))) = "true"

\* The same query with only column guid compared.
hasBeenPosted_GuidOnly(tbl, x) ==
    \E i \in 1..Len(tbl) : SqlEq(tbl[i].guid, Bind(x)) = "true"

\* SELECT 1 FROM posted WHERE guid = ? OR link = ?  -> !!row
hasBeenPosted(tbl, x) ==
    \E i \in 1..Len(tbl) : RowMatches(tbl[i], x)

\* The row a markPosted call binds to its INSERT.
BoundRow(e) ==
    [guid |-> Bind(e.guid), link |-> Bind(e.link), title |-> Bind(e.title),
     published_at |-> Bind(JsOr(e.published_at, Null))]

\* A UNIQUE constraint is violated by an equal non-NULL value in the column.
Conflicts(tbl, row, uniq) ==
    \E i \in 1..Len(tbl) :
        \/ "guid" \in uniq /\ SqlEq(tbl[i].guid, row.guid) = "true"
        \/ "link" \in uniq /\ SqlEq(tbl[i].link, row.link) = "true"

\* The same call with a plain INSERT (no conflict clause): it throws on a
\* conflict.
markPosted_Plain(tbl, e, uniq) ==
    IF Conflicts(tbl, BoundRow(e), uniq)
    THEN [tbl |-> tbl, err |-> TRUE]
    ELSE [tbl |-> Append(tbl, BoundRow(e)), err |-> FALSE]

\* INSERT OR IGNORE INTO posted (...) VALUES (...): the new table and
\* whether the call threw.
markPosted(tbl, e, uniq) ==
    IF Conflicts(tbl, BoundRow(e), uniq)
    THEN [tbl |-> tbl, err |-> FALSE]
    ELSE [tbl |-> Append(tbl, BoundRow(e)), err |-> FALSE]

\* JSON.stringify of an array of strings: the text of posted.json, one token
\* per element; undefined and null elements are both written as null.
JsonStringify(list) ==
    [i \in 1..Len(list) |->
        IF list[i] = Undefined \/ list[i] = Null
        THEN [t |-> "null", v |-> ""]
        ELSE [t |-> "string", v |-> list[i]]]

\* JSON.parse(fs.readFileSync(postedFile)): null tokens become JS null.
JsonParse(file) ==
    [i \in 1..Len(file) |-> IF file[i].t = "null" THEN Null ELSE file[i].v]

\* Array.prototype.includes (SameValueZero): undefined is not null.
Includes(list, x) == \E i \in 1..Len(list) : list[i] = x

Range(s) == {s[i] : i \in 1..Len(s)}

----------------------------------------------------------------------------
(* Bounds of the model                                                     *)

\* Ledger calls made in one behaviour of SpecLedger.
MaxCalls == 3
\* Runs started in one behaviour of Spec.
MaxRuns == 3
\* Process crashes in one behaviour of Spec.
MaxCrashes == 1
\* MAX_ITEMS_PER_RUN as configured in the environment.
MAX_ITEMS_PER_RUN == 2

----------------------------------------------------------------------------
VARIABLES
    variant,      \* which variant of the program runs
    posted,       \* table `posted`: the rows in insertion (id) order
    postedFile,   \* the text of posted.json
    call,         \* SpecLedger: per process, the ledger call in progress
    calls,        \* SpecLedger, SpecKeys: calls of the store made so far
    lastQuery,    \* SpecLedger: the last hasBeenPosted call and its result
    everStored,   \* history: every row / link the store has ever held
    mode,         \* MODE: "once" or "cron"
    feed,         \* what the feed collaborator returns (the same on every fetch)
    main,         \* the process: "down", "initial" (start() awaits the first run), "cron"
    run,          \* per run slot, the locals of one processOnce / fetchAndPost call
    runs,         \* runs started so far
    crashes,      \* process crashes so far
    pubOk,        \* history: per item, whether a publish call returned success
    marked,       \* history: per item, whether a ledger commit was made for it
    pubAtCrash,   \* history: items published with success before the last crash
    skipped,      \* history: items whose processing ended without a commit
    keyUse,       \* table `key_usage`: per key hash, the row (present or not)
    clock,        \* Date.now() at the last reading
    keyPicks,     \* history: per configured key, how often getNextAPIKey returned it
    env,          \* the credentials set in the environment
    exitCode      \* how the process ended last: "none" (not yet), "0", "1", "signal"

\* History: something happened "never", "once", or "again" (more than once).
Again(c) == IF c = "never" THEN "once" ELSE "again"

ledgerVars == <<posted, postedFile>>
apiVars == <<call, calls, lastQuery, everStored>>
progVars == <<mode, feed, main, run, runs, crashes, pubOk, marked, pubAtCrash, skipped>>
histVars == <<pubOk, marked, pubAtCrash, skipped>>
keyVars == <<keyUse, clock, keyPicks>>
vars == <<variant, posted, postedFile, call, calls, lastQuery, everStored,
          mode, feed, main, run, runs, crashes, pubOk, marked, pubAtCrash, skipped,
          keyUse, clock, keyPicks, env, exitCode>>

----------------------------------------------------------------------------
(* Feed items and the locals of a run                                      *)

\* The three shapes of item the feed produces: with a guid, with only a
\* link, with only a title.  contentImg: the feed content holds an <img>.
ItemA == [guid |-> "ga", link |-> "la", id |-> Undefined, title |-> "ta",
          pubDate |-> "d1", contentImg |-> TRUE]
ItemB == [guid |-> Undefined, link |-> "lb", id |-> Undefined, title |-> "tb",
          pubDate |-> Undefined, contentImg |-> FALSE]
ItemC == [guid |-> Undefined, link |-> Undefined, id |-> Undefined, title |-> "tc",
          pubDate |-> "d1", contentImg |-> TRUE]
\* Further shapes, fed by FeedsOfTwins and FeedsOfDates only: the article of
\* ItemA syndicated under another guid, an item with a later pubDate, an
\* item whose pubDate is text that new Date() cannot parse.
ItemD == [guid |-> "gd", link |-> "la", id |-> Undefined, title |-> "td",
          pubDate |-> "d1", contentImg |-> FALSE]
ItemN == [guid |-> "gn", link |-> "ln", id |-> Undefined, title |-> "tn",
          pubDate |-> "d2", contentImg |-> TRUE]
ItemX == [guid |-> "gx", link |-> "lx", id |-> Undefined, title |-> "tx",
          pubDate |-> "soon", contentImg |-> TRUE]
\* An item with a title only and no <img> in its content, fed by
\* FeedsOfImages only.
ItemE == [guid |-> Undefined, link |-> Undefined, id |-> Undefined, title |-> "te",
          pubDate |-> "d1", contentImg |-> FALSE]
ItemSet == {ItemA, ItemB, ItemC, ItemD, ItemE, ItemN, ItemX}

\* The feed outputs of the model: the three items, in two orders.
FeedChoices == {<<ItemA, ItemB, ItemC>>, <<ItemC, ItemA, ItemB>>}

ProgramVariants == {"app", "brand", "multi", "json"}

\* The credentials read from the environment: the OpenAI key (or keys), the
\* Blogger OAuth configuration (CLIENT_ID, CLIENT_SECRET, REFRESH_TOKEN,
\* BLOG_ID), the Imgur client id.
Credentials == {"openai", "blogger", "imgur"}

\* The credentials without which the module body of a variant does not get
\* past its first statements: those its validation tests; in the
\* posted.json variant, which has no validation, the key that the OpenAI
\* client refuses to be constructed without.
Required(v) ==
    CASE v = "brand" -> {"openai", "blogger", "imgur"}
      [] v = "json" -> {"openai"}
      [] OTHER -> {"openai", "blogger"}
Slots == {1, 2}

\* OPENAI_API_KEYS, each key a sequence of symbols.
OPENAI_API_KEYS == << <<"s", "k", "a">>, <<"s", "k", "b">> >>

\* Base64, group by group: a symbol of a key stands for three of its bytes,
\* the capital for the four characters that encode them; atob is the
\* decoding.
ToBase64Group(c) ==
    CASE c = "s" -> "S" [] c = "k" -> "K" [] c = "a" -> "A" [] c = "b" -> "B"
FromBase64Group(g) ==
    CASE g = "S" -> "s" [] g = "K" -> "k" [] g = "A" -> "a" [] g = "B" -> "b"
ToBase64(bytes) == [i \in DOMAIN bytes |-> ToBase64Group(bytes[i])]
atob(text) == [i \in DOMAIN text |-> FromBase64Group(text[i])]

\* Buffer.from(key).toString('base64').slice(-20): the tail of the encoding
\* (20 characters are five groups; HashLen groups in the model).
HashLen == 2
hashAPIKey(key) == SubSeq(ToBase64(key), Len(key) - HashLen + 1, Len(key))

KeyHashes == {hashAPIKey(OPENAI_API_KEYS[i]) : i \in DOMAIN OPENAI_API_KEYS}
NoKeyRow == [present |-> FALSE, last_used |-> 0, total_used |-> 0, total_tokens |-> 0]
EmptyKeyUsage == [h \in KeyHashes |-> NoKeyRow]
NoPicks == [i \in DOMAIN OPENAI_API_KEYS |-> 0]

\* A slice that takes the whole array.
Take_All(s, n) == s

\* Array.prototype.slice(0, n)
Take(s, n) == SubSeq(s, 1, IF Len(s) < n THEN Len(s) ELSE n)

\* The locals of a run that has not started.
\*   pc     where the run is suspended ("idle", "done", or the awaited call)
\*   queue  items / allItems / primaryItem        idx  index of the current item
\*   k      multi-feed: index of the feed being fetched
\*   snap   posted.json variant: postedLinks as read for the current item
\*   key    multi-key variant: selectedAPIKey of the generation in progress
\*   tok    multi-key variant: articleData.tokens_used, where the ledger
\*          columns openai_key_used and tokens_used are modelled (SpecAudit)
\*   fail   index of the last item a collaborator stage failed on (0: none)
\*   err    why the outer catch was entered ("none" if it was not)
\*   cut    the run returned on a failing item with items behind it in the queue
IdleRun ==
    [pc |-> "idle", queue |-> <<>>, idx |-> 0, k |-> 0, snap |-> <<>>, key |-> <<>>,
     tok |-> 0, fail |-> 0, err |-> "none", cut |-> FALSE]

\* A run that has returned: its locals are gone, its outcome is kept.
Finish(rec) ==
    [IdleRun EXCEPT !.pc = "done", !.err = rec.err,
                    !.cut = rec.cut \/ (rec.fail # 0 /\ rec.fail = rec.idx
                                          /\ rec.idx < Len(rec.queue))]

Settle(f) == [r \in DOMAIN f |-> IF f[r].pc = "done" THEN Finish(f[r]) ELSE f[r]]

Active(r) == run[r].pc \notin {"idle", "done"}

\* The item a run is working on.
OnItem(r) == Active(r) /\ run[r].pc # "fetch"
Cur(r) == run[r].queue[run[r].idx]

----------------------------------------------------------------------------
(* SpecLedger: the ledger store called from two processes                  *)

Procs == {1, 2}
Keys == {"k1", "k2"}

\* Arguments of markPosted: any of guid and link may be missing, the guid
\* may equal the link (guid = item.guid || item.link).
SqlEntries ==
    [guid : Keys \cup {Undefined}, link : {"k1", Undefined},
     title : {"t"}, published_at : {Undefined}]

\* Links pushed on posted.json (item.link, possibly missing).
JsonEntries ==
    [guid : {Undefined}, link : Keys \cup {Undefined},
     title : {"t"}, published_at : {Undefined}]

NoEntry == [guid |-> Undefined, link |-> Undefined, title |-> "", published_at |-> Undefined]
IdleCall == [st |-> "idle", e |-> NoEntry, snap |-> <<>>, ov |-> FALSE, fresh |-> FALSE]
NoQuery == [st |-> "none", key |-> Undefined, res |-> FALSE]

LedgerVariants == {"app", "multi", "dbjs", "json"}

InitLedger ==
    /\ variant \in LedgerVariants
    /\ posted = <<>>
    /\ postedFile = JsonStringify(<<>>)
    /\ call = [p \in Procs |-> IdleCall]
    /\ calls = 0
    /\ lastQuery = NoQuery
    /\ everStored = {}
    /\ env = Credentials
    /\ exitCode = "none"
    /\ mode = "once"
    /\ feed = <<>>
    /\ main = "down"
    /\ run = [r \in Slots |-> IdleRun]
    /\ runs = 0
    /\ crashes = 0
    /\ pubOk = [x \in ItemSet |-> "never"]
    /\ marked = [x \in ItemSet |-> "never"]
    /\ pubAtCrash = {}
    /\ skipped = {}
    /\ keyUse = EmptyKeyUsage
    /\ clock = 0
    /\ keyPicks = NoPicks

\* The two calls are for the same identity.
SameIdentity(e1, e2) ==
    IF variant = "json" THEN e1.link = e2.link /\ e1.link # Undefined
    ELSE e1 = e2 /\ e1.guid # Undefined

\* A process calls markPosted(e); the statement has not run yet.
L_Call(p, e) ==
    /\ variant \in SqliteVariants
    /\ call[p].st # "pending"
    /\ calls < MaxCalls
    /\ LET both == \E q \in Procs \ {p} :
                      call[q].st = "pending" /\ SameIdentity(call[q].e, e)
       IN call' = [q \in Procs |->
                     IF q = p
                     THEN [st |-> "pending", e |-> e, snap |-> <<>>, ov |-> both,
                           fresh |-> ~hasBeenPosted(posted, e.guid)
                                     /\ ~hasBeenPosted(posted, e.link)]
                     ELSE IF both /\ call[q].st = "pending" /\ SameIdentity(call[q].e, e)
                     THEN [call[q] EXCEPT !.ov = TRUE]
                     ELSE call[q]]
    /\ calls' = calls + 1
    /\ lastQuery' = NoQuery
    /\ UNCHANGED <<variant, env, exitCode, keyVars, posted, postedFile, everStored, progVars>>

\* The INSERT OR IGNORE statement runs (one atomic SQLite statement).
L_Exec(p) ==
    /\ variant \in SqliteVariants
    /\ call[p].st = "pending"
    /\ LET out == markPosted(posted, call[p].e, UniqueColumns(variant))
       IN /\ posted' = out.tbl
          /\ call' = [call EXCEPT ![p].st = IF out.err THEN "error" ELSE "ok"]
          /\ everStored' = everStored \cup Range(out.tbl)
    /\ lastQuery' = NoQuery
    /\ UNCHANGED <<variant, env, exitCode, keyVars, postedFile, calls, progVars>>

\* hasBeenPosted(x) is called (synchronous, read-only).
L_Query(x) ==
    /\ variant \in SqliteVariants
    /\ lastQuery' = [st |-> "set", key |-> x, res |-> hasBeenPosted(posted, x)]
    /\ UNCHANGED <<variant, env, exitCode, keyVars, posted, postedFile, call, calls, everStored, progVars>>

\* posted.json: the list is read and searched for the link; a link already
\* in the list is skipped.
J_Read(p, e) ==
    /\ variant = "json"
    /\ call[p].st # "pending"
    /\ calls < MaxCalls
    /\ LET list == JsonParse(postedFile)
           both == \E q \in Procs \ {p} :
                      call[q].st = "pending" /\ SameIdentity(call[q].e, e)
       IN IF Includes(list, e.link)
          THEN call' = [call EXCEPT ![p] =
                          [st |-> "dup", e |-> e, snap |-> <<>>, ov |-> FALSE, fresh |-> FALSE]]
          ELSE call' = [q \in Procs |->
                          IF q = p
                          THEN [st |-> "pending", e |-> e, snap |-> list, ov |-> both,
                                fresh |-> TRUE]
                          ELSE IF both /\ call[q].st = "pending" /\ SameIdentity(call[q].e, e)
                          THEN [call[q] EXCEPT !.ov = TRUE]
                          ELSE call[q]]
    /\ calls' = calls + 1
    /\ lastQuery' = NoQuery
    /\ UNCHANGED <<variant, env, exitCode, keyVars, posted, postedFile, everStored, progVars>>

\* posted.json: the link is pushed on the list read earlier and the whole
\* file is rewritten from it.
J_Write(p) ==
    /\ variant = "json"
    /\ call[p].st = "pending"
    /\ LET file == JsonStringify(Append(call[p].snap, call[p].e.link))
       IN /\ postedFile' = file
          /\ everStored' = everStored \cup Range(file)
    /\ call' = [call EXCEPT ![p].st = "ok"]
    /\ lastQuery' = NoQuery
    /\ UNCHANGED <<variant, env, exitCode, keyVars, posted, calls, progVars>>

NextLedger ==
    \/ \E p \in Procs, e \in SqlEntries : L_Call(p, e)
    \/ \E p \in Procs : L_Exec(p)
    \/ \E x \in Keys \cup {Undefined} : L_Query(x)
    \/ \E p \in Procs, e \in JsonEntries : J_Read(p, e)
    \/ \E p \in Procs : J_Write(p)

SpecLedger == InitLedger /\ [][NextLedger]_vars

----------------------------------------------------------------------------
(* Spec: one process, its runs, its crashes and restarts                   *)

Init ==
    /\ variant \in ProgramVariants
    /\ mode \in {"once", "cron"}
    /\ feed \in FeedChoices
    /\ posted = <<>>
    /\ postedFile = JsonStringify(<<>>)
    /\ main = "down"
    /\ run = [r \in Slots |-> IdleRun]
    /\ runs = 0
    /\ crashes = 0
    /\ pubOk = [x \in ItemSet |-> "never"]
    /\ marked = [x \in ItemSet |-> "never"]
    /\ pubAtCrash = {}
    /\ skipped = {}
    /\ keyUse = EmptyKeyUsage
    /\ clock = 0
    /\ keyPicks = NoPicks
    /\ call = [p \in Procs |-> IdleCall]
    /\ calls = 0
    /\ lastQuery = NoQuery
    /\ everStored = {}
    /\ env = Credentials
    /\ exitCode = "none"

\* A run sits between a publish call that returned and the ledger commit
\* that follows it in the same synchronous stretch of code: no other
\* callback of the process can run before the commit.
SyncPending == \E r \in Slots : run[r].pc = "posted"
Ready == main # "down" /\ ~SyncPending

Published == {x \in ItemSet : pubOk[x] # "never"}

\* The locals of a run that has just called the feed parser.
NewRun ==
    [IdleRun EXCEPT !.pc = "fetch", !.k = 1]

\* An item's processing ended without a commit.
NoteSkipped(xs) == skipped \cup {x \in xs : marked[x] = "never"}

\* start(): the process starts and awaits its first processOnce().
Start ==
    /\ variant # "json"
    /\ main = "down"
    /\ Required(variant) \subseteq env
    /\ runs < MaxRuns
    /\ main' = "initial"
    /\ run' = [r \in Slots |-> IF r = 1 THEN NewRun ELSE IdleRun]
    /\ runs' = runs + 1
    /\ exitCode' = "none"
    /\ UNCHANGED <<variant, env, keyVars, ledgerVars, apiVars, mode, feed, crashes, histVars>>

\* start() without its MODE test: the cron job is scheduled in either mode.
StartReturns_Schedules ==
    /\ variant # "json"
    /\ main = "initial"
    /\ run[1].pc = "done"
    /\ main' = "cron"
    /\ UNCHANGED <<variant, env, exitCode, keyVars, ledgerVars, apiVars, mode, feed, run, runs,
                   crashes, histVars>>

\* start(): the first run returned; MODE=once exits with code 0, otherwise
\* the cron job is scheduled.
StartReturns ==
    /\ variant # "json"
    /\ main = "initial"
    /\ run[1].pc = "done"
    /\ main' = IF mode = "once" THEN "down" ELSE "cron"
    /\ exitCode' = IF mode = "once" THEN "0" ELSE exitCode
    /\ UNCHANGED <<variant, env, keyVars, ledgerVars, apiVars, mode, feed, run, runs, crashes, histVars>>

\* The cron callback fires and calls processOnce() / fetchAndPost(); nothing
\* in it looks at whether an earlier run is still in progress.
CronTick ==
    /\ main = "cron"
    /\ ~SyncPending
    /\ runs < MaxRuns
    /\ \E r \in Slots :
          /\ ~Active(r)
          /\ \A q \in Slots : q < r => Active(q)
          /\ run' = [run EXCEPT ![r] = NewRun]
    /\ runs' = runs + 1
    /\ UNCHANGED <<variant, env, exitCode, keyVars, ledgerVars, apiVars, mode, feed, main, crashes, histVars>>

\* The process dies (kill, power loss, host restart): every run in progress
\* is lost, the ledger on disk stays.
Crash ==
    /\ main # "down"
    /\ crashes < MaxCrashes
    /\ main' = "down"
    /\ run' = [r \in Slots |-> IdleRun]
    /\ crashes' = crashes + 1
    /\ exitCode' = "signal"
    /\ pubAtCrash' = Published
    /\ skipped' = NoteSkipped({Cur(r) : r \in {q \in Slots : OnItem(q)}})
    /\ UNCHANGED <<variant, env, keyVars, ledgerVars, apiVars, mode, feed, runs, pubOk, marked>>

----------------------------------------------------------------------------
(* processOnce of app.js                                                   *)

\* const guid = item.guid || item.link || item.id || item.title
AppGuid(item) == JsOr(item.guid, JsOr(item.link, JsOr(item.id, item.title)))

\* hasBeenPosted(guid) || hasBeenPosted(link)
AppPosted(tbl, item) ==
    hasBeenPosted(tbl, AppGuid(item)) \/ hasBeenPosted(tbl, item.link)

\* markPosted({ guid, link, title, published_at: item.pubDate || ... || null })
AppEntry(item) ==
    [guid |-> AppGuid(item), link |-> item.link,
     title |-> JsOr(item.title, "Untitled"), published_at |-> JsOr(item.pubDate, Null)]

\* The loop skips ("Already posted", continue) to the first item from index
\* i on that is not in the ledger.
RECURSIVE AppNext(_, _, _)
AppNext(tbl, q, i) ==
    IF i > Len(q) THEN i
    ELSE IF AppPosted(tbl, q[i]) THEN AppNext(tbl, q, i + 1)
    ELSE i

\* The first call the loop body awaits: fetchPage when the feed content has
\* no image and the item has a link, else rewriteWithOpenAI.
AppStage(item) ==
    IF ~item.contentImg /\ JsOr(item.link, Null) # Null THEN "page" ELSE "rewrite"

\* The loop goes on from index i until it awaits a call or ends.
AppResume(rec, tbl, i) ==
    LET j == AppNext(tbl, rec.queue, i)
    IN [rec EXCEPT !.idx = j,
                   !.pc = IF j > Len(rec.queue) THEN "done" ELSE AppStage(rec.queue[j])]

\* A duplicate check that writes: the first item seen is stored as posted.
App_FetchOk_Marks(r) ==
    /\ variant = "app" /\ Ready
    /\ run[r].pc = "fetch"
    /\ Len(feed) > 0
    /\ posted' = markPosted(posted, AppEntry(feed[1]), UniqueColumns(variant)).tbl
    /\ run' = Settle([run EXCEPT ![r] =
                        AppResume([@ EXCEPT !.queue = Take(feed, MAX_ITEMS_PER_RUN)],
                                  posted', 1)])
    /\ UNCHANGED <<variant, env, exitCode, keyVars, postedFile, apiVars, mode, feed, main, runs,
                   crashes, histVars>>

\* A run that applies the cap to the items the duplicate check has let
\* through.
App_FetchOk_CapsUnposted(r) ==
    /\ variant = "app" /\ Ready
    /\ run[r].pc = "fetch"
    /\ LET fresh == SelectSeq(feed, LAMBDA x : ~AppPosted(posted, x))
       IN run' = Settle([run EXCEPT ![r] =
                           IF Len(feed) = 0 THEN [@ EXCEPT !.pc = "done"]
                           ELSE AppResume([@ EXCEPT !.queue = Take(fresh, MAX_ITEMS_PER_RUN)],
                                          posted, 1)])
    /\ UNCHANGED <<variant, env, exitCode, keyVars, ledgerVars, apiVars, mode, feed, main, runs, crashes,
                   histVars>>

\* parser.parseURL resolves: the first MAX_ITEMS_PER_RUN items are taken.
App_FetchOk(r) ==
    /\ variant = "app" /\ Ready
    /\ run[r].pc = "fetch"
    /\ run' = Settle([run EXCEPT ![r] =
                        IF Len(feed) = 0 THEN [@ EXCEPT !.pc = "done"]
                        ELSE AppResume([@ EXCEPT !.queue = Take(feed, MAX_ITEMS_PER_RUN)],
                                       posted, 1)])
    /\ UNCHANGED <<variant, env, exitCode, keyVars, ledgerVars, apiVars, mode, feed, main, runs, crashes,
                   histVars>>

\* processOnce without its try/catch: the rejection of parser.parseURL
\* leaves processOnce and the callback that awaits it, and the unhandled
\* rejection ends the process.
App_FetchFail_Rejects(r) ==
    /\ variant = "app" /\ Ready
    /\ run[r].pc = "fetch"
    /\ main' = "down"
    /\ exitCode' = "1"
    /\ run' = [q \in Slots |-> IdleRun]
    /\ UNCHANGED <<variant, env, keyVars, ledgerVars, apiVars, mode, feed, runs, crashes, histVars>>

\* parser.parseURL rejects: the outer catch logs and the run ends.
App_FetchFail(r) ==
    /\ variant = "app" /\ Ready
    /\ run[r].pc = "fetch"
    /\ run' = Settle([run EXCEPT ![r].pc = "done", ![r].err = "fetch"])
    /\ UNCHANGED <<variant, env, exitCode, keyVars, ledgerVars, apiVars, mode, feed, main, runs, crashes,
                   histVars>>

\* What fetchPage resolves to in app.js: null on any error or timeout, a
\* page in which extractOgImage or extractFirstImageFromHtml finds an image,
\* a page in which neither does.
AppPages == {"null", "img", "bare"}

\* A loop that gives the item up when fetchPage returns null.
App_PageDone_Skips(r, page) ==
    /\ variant = "app" /\ Ready
    /\ run[r].pc = "page"
    /\ run' = IF page = "null"
              THEN Settle([run EXCEPT ![r] =
                             AppResume([@ EXCEPT !.fail = run[r].idx], posted, run[r].idx + 1)])
              ELSE [run EXCEPT ![r].pc = "rewrite"]
    /\ UNCHANGED <<variant, env, exitCode, keyVars, ledgerVars, apiVars, mode, feed, main, runs,
                   crashes, histVars>>

\* fetchPage resolves (the page, or null on any error): only the image of
\* the post depends on it; rewriteWithOpenAI is called next.
App_PageDone(r, page) ==
    /\ variant = "app" /\ Ready
    /\ run[r].pc = "page"
    /\ run' = [run EXCEPT ![r].pc = "rewrite"]
    /\ UNCHANGED <<variant, env, exitCode, keyVars, ledgerVars, apiVars, mode, feed, main, runs, crashes,
                   histVars>>

\* rewriteWithOpenAI resolves: createBloggerPost is called.
App_RewriteOk(r) ==
    /\ variant = "app" /\ Ready
    /\ run[r].pc = "rewrite"
    /\ run' = [run EXCEPT ![r].pc = "publish"]
    /\ UNCHANGED <<variant, env, exitCode, keyVars, ledgerVars, apiVars, mode, feed, main, runs, crashes,
                   histVars>>

\* A variant of the rewrite failure path that records the item in the ledger
\* before moving on (the commit placed in the catch block).
App_RewriteFail_Commits(r) ==
    /\ variant = "app" /\ Ready
    /\ run[r].pc = "rewrite"
    /\ posted' = markPosted(posted, AppEntry(Cur(r)), UniqueColumns(variant)).tbl
    /\ run' = Settle([run EXCEPT ![r] =
                        AppResume([@ EXCEPT !.fail = run[r].idx], posted', run[r].idx + 1)])
    /\ skipped' = NoteSkipped({Cur(r)})
    /\ UNCHANGED <<variant, env, exitCode, keyVars, postedFile, apiVars, mode, feed, main, runs, crashes,
                   pubOk, marked, pubAtCrash>>

\* rewriteWithOpenAI throws: caught for the item, the loop continues.
App_RewriteFail(r) ==
    /\ variant = "app" /\ Ready
    /\ run[r].pc = "rewrite"
    /\ run' = Settle([run EXCEPT ![r] =
                        AppResume([@ EXCEPT !.fail = run[r].idx], posted, run[r].idx + 1)])
    /\ skipped' = NoteSkipped({Cur(r)})
    /\ UNCHANGED <<variant, env, exitCode, keyVars, ledgerVars, apiVars, mode, feed, main, runs, crashes,
                   pubOk, marked, pubAtCrash>>

\* A variant of the publish success path that goes on with the next item at
\* once (the commit left for later).
App_PublishOk_MovesOn(r) ==
    /\ variant = "app" /\ Ready
    /\ run[r].pc = "publish"
    /\ run' = Settle([run EXCEPT ![r] = AppResume(@, posted, run[r].idx + 1)])
    /\ pubOk' = [pubOk EXCEPT ![Cur(r)] = Again(@)]
    /\ UNCHANGED <<variant, env, exitCode, keyVars, ledgerVars, apiVars, mode, feed, main, runs, crashes,
                   marked, pubAtCrash, skipped>>

\* createBloggerPost resolves: the post exists on the blog.
App_PublishOk(r) ==
    /\ variant = "app" /\ Ready
    /\ run[r].pc = "publish"
    /\ run' = [run EXCEPT ![r].pc = "posted"]
    /\ pubOk' = [pubOk EXCEPT ![Cur(r)] = Again(@)]
    /\ UNCHANGED <<variant, env, exitCode, keyVars, ledgerVars, apiVars, mode, feed, main, runs, crashes,
                   marked, pubAtCrash, skipped>>

\* createBloggerPost throws: caught for the item, the loop continues.
App_PublishFail(r) ==
    /\ variant = "app" /\ Ready
    /\ run[r].pc = "publish"
    /\ run' = Settle([run EXCEPT ![r] =
                        AppResume([@ EXCEPT !.fail = run[r].idx], posted, run[r].idx + 1)])
    /\ skipped' = NoteSkipped({Cur(r)})
    /\ UNCHANGED <<variant, env, exitCode, keyVars, ledgerVars, apiVars, mode, feed, main, runs, crashes,
                   pubOk, marked, pubAtCrash>>

\* markPosted(...) right after the publish, then sleep(1500) is awaited; an
\* error of the insert would reach the outer catch.
App_MarkPosted(r) ==
    /\ variant = "app" /\ main # "down"
    /\ run[r].pc = "posted"
    /\ LET out == markPosted(posted, AppEntry(Cur(r)), UniqueColumns(variant))
       IN /\ posted' = out.tbl
          /\ run' = Settle([run EXCEPT ![r].pc = IF out.err THEN "done" ELSE "sleep",
                                       ![r].err = IF out.err THEN "ledger" ELSE @])
    /\ marked' = [marked EXCEPT ![Cur(r)] = Again(@)]
    /\ skipped' = skipped \ {Cur(r)}
    /\ UNCHANGED <<variant, env, exitCode, keyVars, postedFile, apiVars, mode, feed, main, runs, crashes,
                   pubOk, pubAtCrash>>

\* sleep resolves: MODE=once returns after the one post, otherwise the loop
\* continues with the next item.
App_SleepDone(r) ==
    /\ variant = "app" /\ Ready
    /\ run[r].pc = "sleep"
    /\ run' = Settle([run EXCEPT ![r] =
                        IF mode = "once" THEN [@ EXCEPT !.pc = "done"]
                        ELSE AppResume(@, posted, run[r].idx + 1)])
    /\ UNCHANGED <<variant, env, exitCode, keyVars, ledgerVars, apiVars, mode, feed, main, runs, crashes,
                   histVars>>

App_Step(r) ==
    \/ App_FetchOk(r) \/ App_FetchFail(r)
    \/ \E page \in AppPages : App_PageDone(r, page)
    \/ App_RewriteOk(r) \/ App_RewriteFail(r)
    \/ App_PublishOk(r) \/ App_PublishFail(r)
    \/ App_MarkPosted(r) \/ App_SleepDone(r)

----------------------------------------------------------------------------
(* processOnce of the image-branding variant                               *)

\* const guid = item.guid || item.link
BrandGuid(item) == JsOr(item.guid, item.link)

BrandPosted(tbl, item) ==
    hasBeenPosted(tbl, BrandGuid(item)) \/ hasBeenPosted(tbl, item.link)

\* markPosted({ guid, link, title, published_at: item.pubDate })
BrandEntry(item) ==
    [guid |-> BrandGuid(item), link |-> item.link,
     title |-> JsOr(item.title, "Untitled"), published_at |-> item.pubDate]

\* What fetchPage can resolve to: null, a page that yields an image, a page
\* without image whose article body replaces the feed content, a page
\* without image and without article body.
Pages == {"null", "img", "body", "bare"}

\* imageUrl after the page and the content have been searched.
ImageFound(item, page) ==
    CASE page = "img" -> TRUE
      [] page = "body" -> FALSE
      [] OTHER -> item.contentImg

\* The loop from index i on, up to the first call it awaits: posted items
\* are passed over, an item without link and without image is skipped.
RECURSIVE BrandScan(_, _, _)
BrandScan(tbl, q, i) ==
    IF i > Len(q) THEN [i |-> i, skips |-> {}]
    ELSE IF BrandPosted(tbl, q[i]) THEN BrandScan(tbl, q, i + 1)
    ELSE IF JsOr(q[i].link, Null) # Null \/ q[i].contentImg THEN [i |-> i, skips |-> {}]
    ELSE LET rest == BrandScan(tbl, q, i + 1)
         IN [i |-> rest.i, skips |-> rest.skips \cup {q[i]}]

BrandResume(rec, tbl, i) ==
    LET j == BrandScan(tbl, rec.queue, i).i
    IN [rec EXCEPT !.idx = j,
                   !.pc = IF j > Len(rec.queue) THEN "done"
                          ELSE IF JsOr(rec.queue[j].link, Null) # Null THEN "page"
                          ELSE "brand"]

\* `return` in the place of `continue`: the run ends at the skipped item.
BrandSkip_Returns(r) ==
    /\ run' = Settle([run EXCEPT ![r].pc = "done", ![r].fail = run[r].idx])
    /\ skipped' = NoteSkipped({Cur(r)})
    /\ UNCHANGED <<variant, env, exitCode, keyVars, ledgerVars, apiVars, mode, feed, main, runs, crashes,
                   pubOk, marked, pubAtCrash>>

\* An item is skipped with `continue`: the loop goes on with the next one.
BrandSkip(r) ==
    /\ run' = Settle([run EXCEPT ![r] =
                        BrandResume([@ EXCEPT !.fail = run[r].idx], posted, run[r].idx + 1)])
    /\ skipped' = NoteSkipped({Cur(r)} \cup BrandScan(posted, run[r].queue, run[r].idx + 1).skips)
    /\ UNCHANGED <<variant, env, exitCode, keyVars, ledgerVars, apiVars, mode, feed, main, runs, crashes,
                   pubOk, marked, pubAtCrash>>

\* An exception leaves the loop: the outer catch logs it and the run ends.
BrandAbort(r) ==
    /\ run' = Settle([run EXCEPT ![r].pc = "done", ![r].err = "stage", ![r].fail = run[r].idx])
    /\ skipped' = NoteSkipped({Cur(r)})
    /\ UNCHANGED <<variant, env, exitCode, keyVars, ledgerVars, apiVars, mode, feed, main, runs, crashes,
                   pubOk, marked, pubAtCrash>>

Brand_FetchOk(r) ==
    /\ variant = "brand" /\ Ready
    /\ run[r].pc = "fetch"
    /\ LET q == Take(feed, MAX_ITEMS_PER_RUN)
       IN /\ run' = Settle([run EXCEPT ![r] =
                              IF Len(feed) = 0 THEN [@ EXCEPT !.pc = "done"]
                              ELSE BrandResume([@ EXCEPT !.queue = q], posted, 1)])
          /\ skipped' = NoteSkipped(BrandScan(posted, q, 1).skips)
    /\ UNCHANGED <<variant, env, exitCode, keyVars, ledgerVars, apiVars, mode, feed, main, runs, crashes,
                   pubOk, marked, pubAtCrash>>

Brand_FetchFail(r) ==
    /\ variant = "brand" /\ Ready
    /\ run[r].pc = "fetch"
    /\ run' = Settle([run EXCEPT ![r].pc = "done", ![r].err = "fetch"])
    /\ UNCHANGED <<variant, env, exitCode, keyVars, ledgerVars, apiVars, mode, feed, main, runs, crashes,
                   histVars>>

\* fetchPage resolves; with an image processAndBrandImage is called,
\* without one the item is skipped.
Brand_PageDone(r, page) ==
    /\ variant = "brand" /\ Ready
    /\ run[r].pc = "page"
    /\ IF ImageFound(Cur(r), page)
       THEN /\ run' = [run EXCEPT ![r].pc = "brand"]
            /\ UNCHANGED <<variant, env, exitCode, keyVars, ledgerVars, apiVars, mode, feed, main, runs, crashes,
                           histVars>>
       ELSE BrandSkip(r)

\* processAndBrandImage throwing where it returns null.
Brand_BrandDone_Throws(r, ok) ==
    /\ variant = "brand" /\ Ready
    /\ run[r].pc = "brand"
    /\ IF ok
       THEN /\ run' = [run EXCEPT ![r].pc = "upload"]
            /\ UNCHANGED <<variant, env, exitCode, keyVars, ledgerVars, apiVars, mode, feed, main, runs, crashes,
                           histVars>>
       ELSE BrandAbort(r)

\* processAndBrandImage resolves: a base64 image, or null.
Brand_BrandDone(r, ok) ==
    /\ variant = "brand" /\ Ready
    /\ run[r].pc = "brand"
    /\ IF ok
       THEN /\ run' = [run EXCEPT ![r].pc = "upload"]
            /\ UNCHANGED <<variant, env, exitCode, keyVars, ledgerVars, apiVars, mode, feed, main, runs, crashes,
                           histVars>>
       ELSE BrandSkip(r)

\* uploadToImgur resolves: the image URL, or null.
Brand_UploadDone(r, ok) ==
    /\ variant = "brand" /\ Ready
    /\ run[r].pc = "upload"
    /\ IF ok
       THEN /\ run' = [run EXCEPT ![r].pc = "rewrite"]
            /\ UNCHANGED <<variant, env, exitCode, keyVars, ledgerVars, apiVars, mode, feed, main, runs, crashes,
                           histVars>>
       ELSE BrandSkip(r)

\* rewriteWithOpenAI resolves: generateImageAlt is called.
Brand_RewriteOk(r) ==
    /\ variant = "brand" /\ Ready
    /\ run[r].pc = "rewrite"
    /\ run' = [run EXCEPT ![r].pc = "meta"]
    /\ UNCHANGED <<variant, env, exitCode, keyVars, ledgerVars, apiVars, mode, feed, main, runs, crashes,
                   histVars>>

\* rewriteWithOpenAI rethrows: nothing in the loop body catches it.
Brand_RewriteFail(r) ==
    /\ variant = "brand" /\ Ready
    /\ run[r].pc = "rewrite"
    /\ BrandAbort(r)

\* generateImageAlt, generateImageTitle, generateTags have resolved in turn
\* (each catches its own error and returns a default; none reads or writes
\* the ledger); createBloggerPost is called.
Brand_MetaDone(r) ==
    /\ variant = "brand" /\ Ready
    /\ run[r].pc = "meta"
    /\ run' = [run EXCEPT ![r].pc = "publish"]
    /\ UNCHANGED <<variant, env, exitCode, keyVars, ledgerVars, apiVars, mode, feed, main, runs, crashes,
                   histVars>>

Brand_PublishOk(r) ==
    /\ variant = "brand" /\ Ready
    /\ run[r].pc = "publish"
    /\ run' = [run EXCEPT ![r].pc = "posted"]
    /\ pubOk' = [pubOk EXCEPT ![Cur(r)] = Again(@)]
    /\ UNCHANGED <<variant, env, exitCode, keyVars, ledgerVars, apiVars, mode, feed, main, runs, crashes,
                   marked, pubAtCrash, skipped>>

\* createBloggerPost rethrows: nothing in the loop body catches it.
Brand_PublishFail(r) ==
    /\ variant = "brand" /\ Ready
    /\ run[r].pc = "publish"
    /\ BrandAbort(r)

Brand_MarkPosted(r) ==
    /\ variant = "brand" /\ main # "down"
    /\ run[r].pc = "posted"
    /\ LET out == markPosted(posted, BrandEntry(Cur(r)), UniqueColumns(variant))
       IN /\ posted' = out.tbl
          /\ run' = Settle([run EXCEPT ![r].pc = IF out.err THEN "done" ELSE "sleep",
                                       ![r].err = IF out.err THEN "ledger" ELSE @])
    /\ marked' = [marked EXCEPT ![Cur(r)] = Again(@)]
    /\ skipped' = skipped \ {Cur(r)}
    /\ UNCHANGED <<variant, env, exitCode, keyVars, postedFile, apiVars, mode, feed, main, runs, crashes,
                   pubOk, pubAtCrash>>

Brand_SleepDone(r) ==
    /\ variant = "brand" /\ Ready
    /\ run[r].pc = "sleep"
    /\ IF mode = "once"
       THEN /\ run' = Settle([run EXCEPT ![r].pc = "done"])
            /\ skipped' = skipped
       ELSE /\ run' = Settle([run EXCEPT ![r] = BrandResume(@, posted, run[r].idx + 1)])
            /\ skipped' = NoteSkipped(BrandScan(posted, run[r].queue, run[r].idx + 1).skips)
    /\ UNCHANGED <<variant, env, exitCode, keyVars, ledgerVars, apiVars, mode, feed, main, runs, crashes,
                   pubOk, marked, pubAtCrash>>

Brand_Step(r) ==
    \/ Brand_FetchOk(r) \/ Brand_FetchFail(r)
    \/ \E page \in Pages : Brand_PageDone(r, page)
    \/ \E ok \in BOOLEAN : Brand_BrandDone(r, ok)
    \/ \E ok \in BOOLEAN : Brand_UploadDone(r, ok)
    \/ Brand_RewriteOk(r) \/ Brand_RewriteFail(r) \/ Brand_MetaDone(r)
    \/ Brand_PublishOk(r) \/ Brand_PublishFail(r)
    \/ Brand_MarkPosted(r) \/ Brand_SleepDone(r)

----------------------------------------------------------------------------
(* fetchAndPost of the posted.json variant                                 *)

\* The module body: fetchAndPost() is called and not awaited; outside
\* MODE=once the hourly cron job is scheduled before that first call.
Json_Start ==
    /\ variant = "json"
    /\ main = "down"
    /\ Required(variant) \subseteq env
    /\ runs < MaxRuns
    /\ main' = IF mode = "once" THEN "initial" ELSE "cron"
    /\ run' = [r \in Slots |-> IF r = 1 THEN NewRun ELSE IdleRun]
    /\ runs' = runs + 1
    /\ exitCode' = "none"
    /\ UNCHANGED <<variant, env, keyVars, ledgerVars, apiVars, mode, feed, crashes, histVars>>

\* MODE=once: nothing is pending any more once the run has returned, and
\* the process ends.
Json_Exit ==
    /\ variant = "json"
    /\ main = "initial"
    /\ run[1].pc = "done"
    /\ main' = "down"
    /\ exitCode' = "0"
    /\ UNCHANGED <<variant, env, keyVars, ledgerVars, apiVars, mode, feed, run, runs, crashes, histVars>>

\* The loop passes over the items whose link is in posted.json, which it
\* reads again for every item.
RECURSIVE JsonNext(_, _, _)
JsonNext(file, q, i) ==
    IF i > Len(q) THEN i
    ELSE IF Includes(JsonParse(file), q[i].link) THEN JsonNext(file, q, i + 1)
    ELSE i

\* parser.parseURL resolves; for the first item not in posted.json the
\* chat completion is requested, with the list just read kept in postedLinks.
Json_FetchOk(r) ==
    /\ variant = "json" /\ Ready
    /\ run[r].pc = "fetch"
    /\ LET j == JsonNext(postedFile, feed, 1)
       IN run' = Settle([run EXCEPT ![r].queue = feed, ![r].idx = j,
                                    ![r].pc = IF j > Len(feed) THEN "done" ELSE "rewrite",
                                    ![r].snap = IF j > Len(feed) THEN <<>>
                                                ELSE JsonParse(postedFile)])
    /\ UNCHANGED <<variant, env, exitCode, keyVars, ledgerVars, apiVars, mode, feed, main, runs, crashes,
                   histVars>>

Json_FetchFail(r) ==
    /\ variant = "json" /\ Ready
    /\ run[r].pc = "fetch"
    /\ run' = Settle([run EXCEPT ![r].pc = "done", ![r].err = "fetch"])
    /\ UNCHANGED <<variant, env, exitCode, keyVars, ledgerVars, apiVars, mode, feed, main, runs, crashes,
                   histVars>>

\* The chat completion resolves: blogger.posts.insert is called.
Json_RewriteOk(r) ==
    /\ variant = "json" /\ Ready
    /\ run[r].pc = "rewrite"
    /\ run' = [run EXCEPT ![r].pc = "publish"]
    /\ UNCHANGED <<variant, env, exitCode, keyVars, ledgerVars, apiVars, mode, feed, main, runs, crashes,
                   histVars>>

\* The chat completion rejects: the catch around the whole loop logs it.
Json_RewriteFail(r) ==
    /\ variant = "json" /\ Ready
    /\ run[r].pc = "rewrite"
    /\ run' = Settle([run EXCEPT ![r].pc = "done", ![r].err = "stage", ![r].fail = run[r].idx])
    /\ skipped' = NoteSkipped({Cur(r)})
    /\ UNCHANGED <<variant, env, exitCode, keyVars, ledgerVars, apiVars, mode, feed, main, runs, crashes,
                   pubOk, marked, pubAtCrash>>

Json_PublishOk(r) ==
    /\ variant = "json" /\ Ready
    /\ run[r].pc = "publish"
    /\ "blogger" \in env
    /\ run' = [run EXCEPT ![r].pc = "posted"]
    /\ pubOk' = [pubOk EXCEPT ![Cur(r)] = Again(@)]
    /\ UNCHANGED <<variant, env, exitCode, keyVars, ledgerVars, apiVars, mode, feed, main, runs, crashes,
                   marked, pubAtCrash, skipped>>

\* blogger.posts.insert rejects: the catch around the whole loop logs it.
Json_PublishFail(r) ==
    /\ variant = "json" /\ Ready
    /\ run[r].pc = "publish"
    /\ run' = Settle([run EXCEPT ![r].pc = "done", ![r].err = "stage", ![r].fail = run[r].idx])
    /\ skipped' = NoteSkipped({Cur(r)})
    /\ UNCHANGED <<variant, env, exitCode, keyVars, ledgerVars, apiVars, mode, feed, main, runs, crashes,
                   pubOk, marked, pubAtCrash>>

\* postedLinks.push(item.link); the file is rewritten from postedLinks;
\* break.
Json_Write(r) ==
    /\ variant = "json" /\ main # "down"
    /\ run[r].pc = "posted"
    /\ postedFile' = JsonStringify(Append(run[r].snap, Cur(r).link))
    /\ run' = Settle([run EXCEPT ![r].pc = "done"])
    /\ marked' = [marked EXCEPT ![Cur(r)] = Again(@)]
    /\ skipped' = skipped \ {Cur(r)}
    /\ UNCHANGED <<variant, env, exitCode, keyVars, posted, apiVars, mode, feed, main, runs, crashes,
                   pubOk, pubAtCrash>>

Json_Step(r) ==
    \/ Json_FetchOk(r) \/ Json_FetchFail(r)
    \/ Json_RewriteOk(r) \/ Json_RewriteFail(r)
    \/ Json_PublishOk(r) \/ Json_PublishFail(r)
    \/ Json_Write(r)

----------------------------------------------------------------------------
(* processOnce of the multi-feed, multi-key variant                        *)

\* RSS_FEEDS_TO_PROCESS names two feeds: the first serves the first two
\* items of `feed`, the second the rest.
NumFeeds == 2
FeedItems(k) == IF k = 1 THEN SubSeq(feed, 1, 2) ELSE SubSeq(feed, 3, Len(feed))

\* feed.items.slice(0, 10)
FeedSlice == 10

\* The getTime() of an Invalid Date (NaN is no integer: -1 stands for it,
\* every real timestamp of the model being 0 or more).
NaN == -1

\* new Date(pubDate).getTime(): "d1" and "d2" are date strings, "d2" the
\* later one; any other text gives an Invalid Date.
DateGetTime(pubDate) ==
    CASE pubDate = "d1" -> 1
      [] pubDate = "d2" -> 2
      [] OTHER -> NaN

\* pubDateParsed.getTime(): new Date(0) for an item without pubDate.
PubTime(item) == IF JsOr(item.pubDate, Null) # Null THEN DateGetTime(item.pubDate) ELSE 0

\* (a, b) => b.pubDateParsed.getTime() - a.pubDateParsed.getTime()
\* is a number unless one of the two times is NaN, and then it is NaN.
YieldsNaN(a, b) == PubTime(a) = NaN \/ PubTime(b) = NaN
CompareFn(a, b) == PubTime(b) - PubTime(a)

\* const guid = item.guid || item.link || item.title   (the filter's key)
MultiKey(item) == JsOr(item.guid, JsOr(item.link, item.title))

\* allItems.filter(item => !hasBeenPosted(guid))
RECURSIVE Unposted(_, _)
Unposted(tbl, s) ==
    IF s = <<>> THEN <<>>
    ELSE IF hasBeenPosted(tbl, MultiKey(Head(s))) THEN Unposted(tbl, Tail(s))
    ELSE <<Head(s)>> \o Unposted(tbl, Tail(s))

\* x put into s, sorted newest first, behind the elements not older than it.
RECURSIVE InsertByDate(_, _)
InsertByDate(s, x) ==
    IF s = <<>> THEN <<x>>
    ELSE IF CompareFn(Head(s), x) <= 0 THEN <<Head(s)>> \o InsertByDate(Tail(s), x)
    ELSE <<x>> \o s

\* .sort((a, b) => b.pubDateParsed.getTime() - a.pubDateParsed.getTime())
RECURSIVE SortNewestFirst(_)
SortNewestFirst(s) ==
    IF s = <<>> THEN <<>>
    ELSE InsertByDate(SortNewestFirst(SubSeq(s, 1, Len(s) - 1)), s[Len(s)])

\* The rearrangements of s.
Rearrangements(s) ==
    {[i \in DOMAIN s |-> s[f[i]]] :
        f \in {g \in [DOMAIN s -> DOMAIN s] : \A i, j \in DOMAIN s : g[i] = g[j] => i = j}}

\* What .sort(compareFn) may leave in the array.  Array.prototype.sort is
\* stable, and sorts by compareFn when it is a consistent comparator; with
\* a comparison that yields NaN it is not one, and the order of the result
\* is implementation-defined (ECMAScript, Array.prototype.sort).
SortOutcomes(s) ==
    IF \E i, j \in DOMAIN s : i # j /\ YieldsNaN(s[i], s[j])
    THEN Rearrangements(s)
    ELSE {SortNewestFirst(s)}

\* markPosted({ guid: guid || link, link, title: articleData.title,
\*              published_at: pubDate || null, ... }); the title stands for
\* the generated one, and feed_url, openai_key_used, tokens_used (columns
\* no query reads) are not carried.
MultiEntry(item) ==
    [guid |-> JsOr(item.guid, item.link), link |-> item.link,
     title |-> item.title, published_at |-> JsOr(item.pubDate, Null)]

\* A selection that always returns the first configured key.
LeastRecentlyUsed_First(use) == OPENAI_API_KEYS[1]

\* getNextAPIKey: the key with the oldest last_used, the first of
\* OPENAI_API_KEYS among equals.
LeastRecentlyUsed(use) ==
    LET n == Len(OPENAI_API_KEYS)
        last(i) == use[hashAPIKey(OPENAI_API_KEYS[i])].last_used
        best == CHOOSE i \in 1..n :
                   \A j \in 1..n : last(i) < last(j) \/ (last(i) = last(j) /\ i <= j)
    IN OPENAI_API_KEYS[best]

\* The position of a key in OPENAI_API_KEYS.
KeyIndex(key) == CHOOSE i \in DOMAIN OPENAI_API_KEYS : OPENAI_API_KEYS[i] = key

\* The same statement without the COALESCE subquery: total_used restarts.
KeyUsed_Restarts(use, key, now) ==
    [use EXCEPT ![hashAPIKey(key)] =
        [present |-> TRUE, last_used |-> now, total_used |-> 1, total_tokens |-> 0]]

\* INSERT OR REPLACE INTO key_usage (key_hash, last_used, total_used): the
\* row is replaced, the columns not named take their defaults.
KeyUsed(use, key, now) ==
    [use EXCEPT ![hashAPIKey(key)] =
        [present |-> TRUE, last_used |-> now,
         total_used |-> use[hashAPIKey(key)].total_used + 1, total_tokens |-> 0]]

\* updateTokenUsage: UPDATE key_usage SET total_tokens = total_tokens + ?
updateTokenUsage(use, h, tokensUsed) ==
    IF use[h].present THEN [use EXCEPT ![h].total_tokens = @ + tokensUsed] ELSE use

\* completion.usage?.total_tokens || 0
TokenChoices == {0, 1}

\* A feed has been fetched, or has failed: the next feed is fetched; after
\* the last one the unposted items are sorted and the article for the
\* newest is requested with the key getNextAPIKey selects.
MultiFetched(r, items) ==
    IF run[r].k < NumFeeds
    THEN /\ run' = [run EXCEPT ![r].queue = items, ![r].k = run[r].k + 1]
         /\ UNCHANGED keyVars
    ELSE \E unpostedItems \in SortOutcomes(Unposted(posted, items)) :
            IF unpostedItems = <<>>
            THEN /\ run' = Settle([run EXCEPT ![r].queue = <<>>, ![r].pc = "done"])
                 /\ UNCHANGED keyVars
            ELSE LET key == LeastRecentlyUsed(keyUse)
                 IN /\ run' = [run EXCEPT ![r].queue = <<unpostedItems[1]>>, ![r].idx = 1,
                                          ![r].pc = "generate", ![r].key = key]
                    /\ clock' = clock + 1
                    /\ keyUse' = KeyUsed(keyUse, key, clock + 1)
                    /\ keyPicks' = [keyPicks EXCEPT ![KeyIndex(key)] = @ + 1]

Multi_FetchOk(r) ==
    /\ variant = "multi" /\ Ready
    /\ run[r].pc = "fetch"
    /\ MultiFetched(r, run[r].queue \o Take(FeedItems(run[r].k), FeedSlice))
    /\ UNCHANGED <<variant, env, exitCode, ledgerVars, apiVars, mode, feed, main, runs, crashes, histVars>>

\* The fetch loop without its try/catch: the rejection ends the run.
Multi_FetchFail_Aborts(r) ==
    /\ variant = "multi" /\ Ready
    /\ run[r].pc = "fetch"
    /\ run' = Settle([run EXCEPT ![r].pc = "done", ![r].err = "fetch"])
    /\ UNCHANGED <<variant, env, exitCode, keyVars, ledgerVars, apiVars, mode, feed, main, runs,
                   crashes, histVars>>

Multi_FetchFail(r) ==
    /\ variant = "multi" /\ Ready
    /\ run[r].pc = "fetch"
    /\ MultiFetched(r, run[r].queue)
    /\ UNCHANGED <<variant, env, exitCode, ledgerVars, apiVars, mode, feed, main, runs, crashes, histVars>>

\* The completion resolves with a valid article: the tokens are added to
\* the key's row and fetchUnsplashImage is called.
Multi_GenOk(r, tokensUsed) ==
    /\ variant = "multi" /\ Ready
    /\ run[r].pc = "generate"
    /\ keyUse' = updateTokenUsage(keyUse, hashAPIKey(run[r].key), tokensUsed)
    /\ run' = [run EXCEPT ![r].pc = "image"]
    /\ UNCHANGED <<variant, env, exitCode, clock, keyPicks, ledgerVars, apiVars, mode, feed, main, runs, crashes,
                   histVars>>

\* A run that goes on to another unposted item of the feeds when the
\* generation for the newest one has failed.
Multi_GenFail_TriesNext(r) ==
    /\ variant = "multi" /\ Ready
    /\ run[r].pc = "generate"
    /\ LET others == {x \in Range(feed) \ {Cur(r)} : ~hasBeenPosted(posted, MultiKey(x))}
       IN run' = IF others = {}
                 THEN Settle([run EXCEPT ![r].pc = "done", ![r].fail = run[r].idx])
                 ELSE [run EXCEPT ![r].queue = <<CHOOSE x \in others : TRUE>>,
                                  ![r].fail = run[r].idx]
    /\ skipped' = NoteSkipped({Cur(r)})
    /\ UNCHANGED <<variant, env, exitCode, keyVars, ledgerVars, apiVars, mode, feed, main, runs, crashes,
                   pubOk, marked, pubAtCrash>>

\* The completion rejects or its content is not a valid article:
\* "Article generation failed. Skipping post." and the run returns.
Multi_GenFail(r) ==
    /\ variant = "multi" /\ Ready
    /\ run[r].pc = "generate"
    /\ run' = Settle([run EXCEPT ![r].pc = "done", ![r].fail = run[r].idx])
    /\ skipped' = NoteSkipped({Cur(r)})
    /\ UNCHANGED <<variant, env, exitCode, keyVars, ledgerVars, apiVars, mode, feed, main, runs, crashes,
                   pubOk, marked, pubAtCrash>>

\* The completion resolves with JSON that has every required field, its
\* article_body not being a string: the tokens are added to the key's row,
\* then validateWordCount throws on text.split and the catch rethrows.
Multi_GenThrows(r, tokensUsed) ==
    /\ variant = "multi" /\ Ready
    /\ run[r].pc = "generate"
    /\ keyUse' = updateTokenUsage(keyUse, hashAPIKey(run[r].key), tokensUsed)
    /\ run' = Settle([run EXCEPT ![r].pc = "done", ![r].fail = run[r].idx])
    /\ skipped' = NoteSkipped({Cur(r)})
    /\ UNCHANGED <<variant, env, exitCode, clock, keyPicks, ledgerVars, apiVars, mode, feed, main, runs, crashes,
                   pubOk, marked, pubAtCrash>>

\* fetchUnsplashImage resolves, with an image URL or null: the post is
\* assembled either way and createBloggerPost is called.
Multi_ImageDone(r) ==
    /\ variant = "multi" /\ Ready
    /\ run[r].pc = "image"
    /\ run' = [run EXCEPT ![r].pc = "publish"]
    /\ UNCHANGED <<variant, env, exitCode, keyVars, ledgerVars, apiVars, mode, feed, main, runs, crashes,
                   histVars>>

Multi_PublishOk(r) ==
    /\ variant = "multi" /\ Ready
    /\ run[r].pc = "publish"
    /\ run' = [run EXCEPT ![r].pc = "posted"]
    /\ pubOk' = [pubOk EXCEPT ![Cur(r)] = Again(@)]
    /\ UNCHANGED <<variant, env, exitCode, keyVars, ledgerVars, apiVars, mode, feed, main, runs, crashes,
                   marked, pubAtCrash, skipped>>

\* createBloggerPost rethrows: "Failed to post to Blogger" and the run returns.
Multi_PublishFail(r) ==
    /\ variant = "multi" /\ Ready
    /\ run[r].pc = "publish"
    /\ run' = Settle([run EXCEPT ![r].pc = "done", ![r].fail = run[r].idx])
    /\ skipped' = NoteSkipped({Cur(r)})
    /\ UNCHANGED <<variant, env, exitCode, keyVars, ledgerVars, apiVars, mode, feed, main, runs, crashes,
                   pubOk, marked, pubAtCrash>>

Multi_MarkPosted(r) ==
    /\ variant = "multi" /\ main # "down"
    /\ run[r].pc = "posted"
    /\ LET out == markPosted(posted, MultiEntry(Cur(r)), UniqueColumns(variant))
       IN /\ posted' = out.tbl
          /\ run' = Settle([run EXCEPT ![r].pc = IF out.err THEN "done" ELSE "sleep",
                                       ![r].err = IF out.err THEN "ledger" ELSE @])
    /\ marked' = [marked EXCEPT ![Cur(r)] = Again(@)]
    /\ skipped' = skipped \ {Cur(r)}
    /\ UNCHANGED <<variant, env, exitCode, keyVars, postedFile, apiVars, mode, feed, main, runs, crashes,
                   pubOk, pubAtCrash>>

\* sleep(5000) resolves: the run returns.
Multi_SleepDone(r) ==
    /\ variant = "multi" /\ Ready
    /\ run[r].pc = "sleep"
    /\ run' = Settle([run EXCEPT ![r].pc = "done"])
    /\ UNCHANGED <<variant, env, exitCode, keyVars, ledgerVars, apiVars, mode, feed, main, runs, crashes,
                   histVars>>

Multi_Step(r) ==
    \/ Multi_FetchOk(r) \/ Multi_FetchFail(r)
    \/ \E t \in TokenChoices : Multi_GenOk(r, t)
    \/ Multi_GenFail(r)
    \/ \E t \in TokenChoices : Multi_GenThrows(r, t)
    \/ Multi_ImageDone(r)
    \/ Multi_PublishOk(r) \/ Multi_PublishFail(r)
    \/ Multi_MarkPosted(r) \/ Multi_SleepDone(r)

Next ==
    \/ Start
    \/ StartReturns
    \/ CronTick
    \/ Crash
    \/ \E r \in Slots : App_Step(r)
    \/ \E r \in Slots : Brand_Step(r)
    \/ Json_Start \/ Json_Exit
    \/ \E r \in Slots : Json_Step(r)
    \/ \E r \in Slots : Multi_Step(r)

Spec == Init /\ [][Next]_vars

\* SpecFeeds: the same program on other feed outputs.  FeedsOfTwins: one
\* article listed under two guids (as when it is syndicated, or when two
\* of the RSS feeds carry it); FeedsOfDates: items with a later, a missing
\* and an unparseable pubDate.
FeedsOfTwins == {<<ItemA, ItemD>>, <<ItemD, ItemA>>}
FeedsOfDates == {<<ItemX, ItemN>>, <<ItemB, ItemN>>}

InitFeeds ==
    /\ variant \in ProgramVariants
    /\ mode \in {"once", "cron"}
    /\ feed \in FeedsOfTwins \cup FeedsOfDates
    /\ posted = <<>>
    /\ postedFile = JsonStringify(<<>>)
    /\ main = "down"
    /\ run = [r \in Slots |-> IdleRun]
    /\ runs = 0
    /\ crashes = 0
    /\ pubOk = [x \in ItemSet |-> "never"]
    /\ marked = [x \in ItemSet |-> "never"]
    /\ pubAtCrash = {}
    /\ skipped = {}
    /\ keyUse = EmptyKeyUsage
    /\ clock = 0
    /\ keyPicks = NoPicks
    /\ call = [p \in Procs |-> IdleCall]
    /\ calls = 0
    /\ lastQuery = NoQuery
    /\ everStored = {}
    /\ env = Credentials
    /\ exitCode = "none"

SpecFeeds == InitFeeds /\ [][Next]_vars

\* SpecBrand: the image-branding variant by itself, on feeds whose first
\* items differ in where an image can come from: ItemE has no link and no
\* image in its content, ItemB has a link only, ItemC has an image in its
\* content and no link.
FeedsOfImages == {<<ItemE, ItemA>>, <<ItemB, ItemA>>, <<ItemC, ItemB>>, <<ItemA, ItemE>>}

InitBrand ==
    /\ variant = "brand"
    /\ mode \in {"once", "cron"}
    /\ feed \in FeedsOfImages
    /\ posted = <<>>
    /\ postedFile = JsonStringify(<<>>)
    /\ main = "down"
    /\ run = [r \in Slots |-> IdleRun]
    /\ runs = 0
    /\ crashes = 0
    /\ pubOk = [x \in ItemSet |-> "never"]
    /\ marked = [x \in ItemSet |-> "never"]
    /\ pubAtCrash = {}
    /\ skipped = {}
    /\ keyUse = EmptyKeyUsage
    /\ clock = 0
    /\ keyPicks = NoPicks
    /\ call = [p \in Procs |-> IdleCall]
    /\ calls = 0
    /\ lastQuery = NoQuery
    /\ everStored = {}
    /\ env = Credentials
    /\ exitCode = "none"

NextBrand ==
    \/ Start
    \/ StartReturns
    \/ CronTick
    \/ Crash
    \/ \E r \in Slots : Brand_Step(r)

SpecBrand == InitBrand /\ [][NextBrand]_vars

\* SpecApp: app.js by itself, on the feeds of Spec and on the feeds that list
\* one article under two guids.
InitApp ==
    /\ variant = "app"
    /\ mode \in {"once", "cron"}
    /\ feed \in FeedChoices \cup FeedsOfTwins
    /\ posted = <<>>
    /\ postedFile = JsonStringify(<<>>)
    /\ main = "down"
    /\ run = [r \in Slots |-> IdleRun]
    /\ runs = 0
    /\ crashes = 0
    /\ pubOk = [x \in ItemSet |-> "never"]
    /\ marked = [x \in ItemSet |-> "never"]
    /\ pubAtCrash = {}
    /\ skipped = {}
    /\ keyUse = EmptyKeyUsage
    /\ clock = 0
    /\ keyPicks = NoPicks
    /\ call = [p \in Procs |-> IdleCall]
    /\ calls = 0
    /\ lastQuery = NoQuery
    /\ everStored = {}
    /\ env = Credentials
    /\ exitCode = "none"

NextApp ==
    \/ Start
    \/ StartReturns
    \/ CronTick
    \/ Crash
    \/ \E r \in Slots : App_Step(r)

SpecApp == InitApp /\ [][NextApp]_vars

\* SpecFaults: the variants whose ledger write can throw (a locked or full
\* database, a posted.json that cannot be written), with that outcome added
\* to the outcomes of Spec.
App_MarkPostedThrows_Swallowed(r) ==
    /\ variant = "app" /\ main # "down"
    /\ run[r].pc = "posted"
    /\ run' = [run EXCEPT ![r].pc = "sleep"]
    /\ marked' = [marked EXCEPT ![Cur(r)] = Again(@)]
    /\ skipped' = skipped \ {Cur(r)}
    /\ UNCHANGED <<variant, env, exitCode, keyVars, ledgerVars, apiVars, mode, feed, main, runs,
                   crashes, pubOk, pubAtCrash>>

\* stmt.run of markPosted throws in app.js: the error leaves the for loop and
\* is logged by the catch of processOnce, which returns.
App_MarkPostedThrows(r) ==
    /\ variant = "app" /\ main # "down"
    /\ run[r].pc = "posted"
    /\ run' = Settle([run EXCEPT ![r].pc = "done", ![r].err = "ledger"])
    /\ UNCHANGED <<variant, env, exitCode, keyVars, ledgerVars, apiVars, mode, feed, main, runs,
                   crashes, histVars>>

\* The same in the multi-feed variant ('processOnce Critical Error').
Multi_MarkPostedThrows(r) ==
    /\ variant = "multi" /\ main # "down"
    /\ run[r].pc = "posted"
    /\ run' = Settle([run EXCEPT ![r].pc = "done", ![r].err = "ledger"])
    /\ UNCHANGED <<variant, env, exitCode, keyVars, ledgerVars, apiVars, mode, feed, main, runs,
                   crashes, histVars>>

\* fs.writeFileSync of posted.json throws: caught by fetchAndPost.
Json_WriteThrows(r) ==
    /\ variant = "json" /\ main # "down"
    /\ run[r].pc = "posted"
    /\ run' = Settle([run EXCEPT ![r].pc = "done", ![r].err = "ledger"])
    /\ UNCHANGED <<variant, env, exitCode, keyVars, ledgerVars, apiVars, mode, feed, main, runs,
                   crashes, histVars>>

InitFaults ==
    /\ variant \in {"app", "multi", "json"}
    /\ mode \in {"once", "cron"}
    /\ feed = <<ItemA, ItemB, ItemC>>
    /\ posted = <<>>
    /\ postedFile = JsonStringify(<<>>)
    /\ main = "down"
    /\ run = [r \in Slots |-> IdleRun]
    /\ runs = 0
    /\ crashes = 0
    /\ pubOk = [x \in ItemSet |-> "never"]
    /\ marked = [x \in ItemSet |-> "never"]
    /\ pubAtCrash = {}
    /\ skipped = {}
    /\ keyUse = EmptyKeyUsage
    /\ clock = 0
    /\ keyPicks = NoPicks
    /\ call = [p \in Procs |-> IdleCall]
    /\ calls = 0
    /\ lastQuery = NoQuery
    /\ everStored = {}
    /\ env = Credentials
    /\ exitCode = "none"

NextFaults ==
    \/ Start
    \/ StartReturns
    \/ CronTick
    \/ Crash
    \/ \E r \in Slots : App_Step(r)
    \/ \E r \in Slots : App_MarkPostedThrows(r)
    \/ Json_Start \/ Json_Exit
    \/ \E r \in Slots : Json_Step(r)
    \/ \E r \in Slots : Json_WriteThrows(r)
    \/ \E r \in Slots : Multi_Step(r)
    \/ \E r \in Slots : Multi_MarkPostedThrows(r)

SpecFaults == InitFaults /\ [][NextFaults]_vars

\* SpecAudit: the multi-key variant with the columns openai_key_used and
\* tokens_used of its ledger rows, which Spec leaves out.

\* The row of markPosted({guid, link, title, published_at, feed_url,
\* openai_key_used, tokens_used}): openai_key_used || null, tokens_used || 0.
AuditRow(e, keyHash, tokensUsed) ==
    [guid |-> Bind(e.guid), link |-> Bind(e.link), title |-> Bind(e.title),
     published_at |-> Bind(JsOr(e.published_at, Null)),
     openai_key_used |-> IF keyHash = <<>> THEN Null ELSE keyHash,
     tokens_used |-> tokensUsed]

\* The completion resolves with a valid article: the tokens are added to the
\* key's row and returned as articleData.tokens_used, next to api_key_hash.
Audit_GenOk(r, tokensUsed) ==
    /\ variant = "multi" /\ Ready
    /\ run[r].pc = "generate"
    /\ keyUse' = updateTokenUsage(keyUse, hashAPIKey(run[r].key), tokensUsed)
    /\ run' = [run EXCEPT ![r].pc = "image", ![r].tok = tokensUsed]
    /\ UNCHANGED <<variant, env, exitCode, clock, keyPicks, ledgerVars, apiVars, mode, feed, main, runs,
                   crashes, histVars>>

\* A commit that asks getNextAPIKey's ordering again for the key to record.
Audit_MarkPosted_Reselects(r) ==
    /\ variant = "multi" /\ main # "down"
    /\ run[r].pc = "posted"
    /\ posted' = IF Conflicts(posted, BoundRow(MultiEntry(Cur(r))), UniqueColumns(variant))
                 THEN posted
                 ELSE Append(posted, AuditRow(MultiEntry(Cur(r)),
                                              hashAPIKey(LeastRecentlyUsed(keyUse)), run[r].tok))
    /\ run' = [run EXCEPT ![r].pc = "sleep"]
    /\ marked' = [marked EXCEPT ![Cur(r)] = Again(@)]
    /\ skipped' = skipped \ {Cur(r)}
    /\ UNCHANGED <<variant, env, exitCode, keyVars, postedFile, apiVars, mode, feed, main, runs, crashes,
                   pubOk, pubAtCrash>>

\* markPosted({..., openai_key_used: articleData.api_key_hash,
\* tokens_used: articleData.tokens_used}), INSERT OR IGNORE.
Audit_MarkPosted(r) ==
    /\ variant = "multi" /\ main # "down"
    /\ run[r].pc = "posted"
    /\ posted' = IF Conflicts(posted, BoundRow(MultiEntry(Cur(r))), UniqueColumns(variant))
                 THEN posted
                 ELSE Append(posted, AuditRow(MultiEntry(Cur(r)),
                                              hashAPIKey(run[r].key), run[r].tok))
    /\ run' = [run EXCEPT ![r].pc = "sleep"]
    /\ marked' = [marked EXCEPT ![Cur(r)] = Again(@)]
    /\ skipped' = skipped \ {Cur(r)}
    /\ UNCHANGED <<variant, env, exitCode, keyVars, postedFile, apiVars, mode, feed, main, runs, crashes,
                   pubOk, pubAtCrash>>

InitAudit ==
    /\ variant = "multi"
    /\ mode \in {"once", "cron"}
    /\ feed \in FeedChoices
    /\ posted = <<>>
    /\ postedFile = JsonStringify(<<>>)
    /\ main = "down"
    /\ run = [r \in Slots |-> IdleRun]
    /\ runs = 0
    /\ crashes = 0
    /\ pubOk = [x \in ItemSet |-> "never"]
    /\ marked = [x \in ItemSet |-> "never"]
    /\ pubAtCrash = {}
    /\ skipped = {}
    /\ keyUse = EmptyKeyUsage
    /\ clock = 0
    /\ keyPicks = NoPicks
    /\ call = [p \in Procs |-> IdleCall]
    /\ calls = 0
    /\ lastQuery = NoQuery
    /\ everStored = {}
    /\ env = Credentials
    /\ exitCode = "none"

NextAudit ==
    \/ Start
    \/ StartReturns
    \/ CronTick
    \/ Crash
    \/ \E r \in Slots : Multi_FetchOk(r)
    \/ \E r \in Slots : Multi_FetchFail(r)
    \/ \E r \in Slots, t \in TokenChoices : Audit_GenOk(r, t)
    \/ \E r \in Slots : Multi_GenFail(r)
    \/ \E r \in Slots, t \in TokenChoices : Multi_GenThrows(r, t)
    \/ \E r \in Slots : Multi_ImageDone(r)
    \/ \E r \in Slots : Multi_PublishOk(r)
    \/ \E r \in Slots : Multi_PublishFail(r)
    \/ \E r \in Slots : Audit_MarkPosted(r)
    \/ \E r \in Slots : Multi_SleepDone(r)

SpecAudit == InitAudit /\ [][NextAudit]_vars

\* SpecStartup: the program started in environments that lack one of the
\* credentials, or none.
EnvChoices == {Credentials} \cup {Credentials \ {c} : c \in Credentials}

InitStartup ==
    /\ variant \in ProgramVariants
    /\ mode \in {"once", "cron"}
    /\ feed = <<ItemA, ItemB, ItemC>>
    /\ posted = <<>>
    /\ postedFile = JsonStringify(<<>>)
    /\ main = "down"
    /\ run = [r \in Slots |-> IdleRun]
    /\ runs = 0
    /\ crashes = 0
    /\ pubOk = [x \in ItemSet |-> "never"]
    /\ marked = [x \in ItemSet |-> "never"]
    /\ pubAtCrash = {}
    /\ skipped = {}
    /\ keyUse = EmptyKeyUsage
    /\ clock = 0
    /\ keyPicks = NoPicks
    /\ call = [p \in Procs |-> IdleCall]
    /\ calls = 0
    /\ lastQuery = NoQuery
    /\ everStored = {}
    /\ env \in EnvChoices
    /\ exitCode = "none"

\* The module body stops before start() is reached: the validation calls
\* process.exit(1), or (posted.json variant) the OpenAI client throws on a
\* missing key and the uncaught exception ends the process.
StartFails ==
    /\ main = "down"
    /\ ~(Required(variant) \subseteq env)
    /\ exitCode' = "1"
    /\ UNCHANGED <<variant, env, keyVars, ledgerVars, apiVars, progVars>>

NextStartup == Next \/ StartFails

SpecStartup == InitStartup /\ [][NextStartup]_vars

\* SpecKeys: the key rotation of the multi-key variant by itself, called by
\* runs that may overlap, at times that need not differ: Date.now() counts
\* milliseconds, and two calls can read the same one.
MaxClock == 3

InitKeys ==
    /\ variant = "multi"
    /\ mode = "cron"
    /\ feed = <<>>
    /\ posted = <<>>
    /\ postedFile = JsonStringify(<<>>)
    /\ main = "cron"
    /\ run = [r \in Slots |-> IdleRun]
    /\ runs = 0
    /\ crashes = 0
    /\ pubOk = [x \in ItemSet |-> "never"]
    /\ marked = [x \in ItemSet |-> "never"]
    /\ pubAtCrash = {}
    /\ skipped = {}
    /\ keyUse = EmptyKeyUsage
    /\ clock = 1
    /\ keyPicks = NoPicks
    /\ call = [p \in Procs |-> IdleCall]
    /\ calls = 0
    /\ lastQuery = NoQuery
    /\ everStored = {}
    /\ env = Credentials
    /\ exitCode = "none"

\* Time passes: Date.now() returns a later value from now on.
Key_Later ==
    /\ clock < MaxClock
    /\ clock' = clock + 1
    /\ UNCHANGED <<variant, env, exitCode, keyUse, keyPicks, ledgerVars, apiVars, progVars>>

\* generateArticleAndMetadata is entered: getNextAPIKey() selects a key and
\* writes its row, then the completion is requested with that key.
Key_Generate(r) ==
    /\ run[r].pc = "idle"
    /\ calls < MaxCalls
    /\ LET key == LeastRecentlyUsed(keyUse)
       IN /\ keyUse' = KeyUsed(keyUse, key, clock)
          /\ keyPicks' = [keyPicks EXCEPT ![KeyIndex(key)] = @ + 1]
          /\ run' = [run EXCEPT ![r] = [IdleRun EXCEPT !.pc = "generate", !.key = key]]
    /\ calls' = calls + 1
    /\ UNCHANGED <<variant, env, exitCode, clock, ledgerVars, call, lastQuery, everStored, mode, feed, main,
                   runs, crashes, histVars>>

\* The completion resolves: updateTokenUsage adds its tokens to the key's row.
Key_GenOk(r, tokensUsed) ==
    /\ run[r].pc = "generate"
    /\ keyUse' = updateTokenUsage(keyUse, hashAPIKey(run[r].key), tokensUsed)
    /\ run' = [run EXCEPT ![r] = IdleRun]
    /\ UNCHANGED <<variant, env, exitCode, clock, keyPicks, ledgerVars, apiVars, mode, feed, main, runs,
                   crashes, histVars>>

\* The completion rejects: the error is rethrown, no row is written.
Key_GenFail(r) ==
    /\ run[r].pc = "generate"
    /\ run' = [run EXCEPT ![r] = [IdleRun EXCEPT !.fail = 1]]
    /\ UNCHANGED <<variant, env, exitCode, keyVars, ledgerVars, apiVars, mode, feed, main, runs, crashes,
                   histVars>>

\* The completion resolves, the tokens are added, and the word count throws.
Key_GenThrows(r, tokensUsed) ==
    /\ run[r].pc = "generate"
    /\ keyUse' = updateTokenUsage(keyUse, hashAPIKey(run[r].key), tokensUsed)
    /\ run' = [run EXCEPT ![r] = [IdleRun EXCEPT !.fail = 1]]
    /\ UNCHANGED <<variant, env, exitCode, clock, keyPicks, ledgerVars, apiVars, mode, feed, main, runs,
                   crashes, histVars>>

NextKeys ==
    \/ Key_Later
    \/ \E r \in Slots : Key_Generate(r)
    \/ \E r \in Slots, t \in TokenChoices : Key_GenOk(r, t)
    \/ \E r \in Slots : Key_GenFail(r)
    \/ \E r \in Slots, t \in TokenChoices : Key_GenThrows(r, t)

SpecKeys == InitKeys /\ [][NextKeys]_vars

\* SpecKeyProcs: getNextAPIKey called by two processes that share the
\* database file, each slot of `run` being the one run of a process.  A
\* call is synchronous inside its process, but its statements are separate
\* statements to SQLite (no transaction): those of the other process can run
\* between the SELECTs and the INSERT OR REPLACE.

\* The SELECTs of getNextAPIKey and the sort: the key is chosen.
Proc_SelectKey(p) ==
    /\ run[p].pc = "idle"
    /\ calls < MaxCalls
    /\ run' = [run EXCEPT ![p] = [IdleRun EXCEPT !.pc = "select",
                                                 !.key = LeastRecentlyUsed(keyUse)]]
    /\ calls' = calls + 1
    /\ UNCHANGED <<variant, env, exitCode, keyVars, ledgerVars, call, lastQuery, everStored, mode, feed, main,
                   runs, crashes, histVars>>

\* The INSERT OR REPLACE of getNextAPIKey; the key is returned and the
\* completion is requested with it.
Proc_RecordKey(p) ==
    /\ run[p].pc = "select"
    /\ keyUse' = KeyUsed(keyUse, run[p].key, clock)
    /\ keyPicks' = [keyPicks EXCEPT ![KeyIndex(run[p].key)] = @ + 1]
    /\ run' = [run EXCEPT ![p].pc = "generate"]
    /\ UNCHANGED <<variant, env, exitCode, clock, ledgerVars, apiVars, mode, feed, main, runs, crashes,
                   histVars>>

NextKeyProcs ==
    \/ Key_Later
    \/ \E p \in Slots : Proc_SelectKey(p)
    \/ \E p \in Slots : Proc_RecordKey(p)
    \/ \E p \in Slots, t \in TokenChoices : Key_GenOk(p, t)
    \/ \E p \in Slots : Key_GenFail(p)
    \/ \E p \in Slots, t \in TokenChoices : Key_GenThrows(p, t)

SpecKeyProcs == InitKeys /\ [][NextKeyProcs]_vars

\* SpecLive: app.js under MODE=cron for as long as one likes.  The cron
\* callback fires without a bound on the number of runs.
CronFires ==
    /\ main = "cron"
    /\ ~SyncPending
    /\ \E r \in Slots :
          /\ ~Active(r)
          /\ \A q \in Slots : q < r => Active(q)
          /\ run' = [run EXCEPT ![r] = NewRun]
    /\ UNCHANGED <<variant, env, exitCode, keyVars, ledgerVars, apiVars, mode, feed, main, runs, crashes,
                   histVars>>

InitLive ==
    /\ variant = "app"
    /\ mode = "cron"
    /\ feed \in FeedChoices
    /\ posted = <<>>
    /\ postedFile = JsonStringify(<<>>)
    /\ main = "down"
    /\ run = [r \in Slots |-> IdleRun]
    /\ runs = 0
    /\ crashes = 0
    /\ pubOk = [x \in ItemSet |-> "never"]
    /\ marked = [x \in ItemSet |-> "never"]
    /\ pubAtCrash = {}
    /\ skipped = {}
    /\ keyUse = EmptyKeyUsage
    /\ clock = 0
    /\ keyPicks = NoPicks
    /\ call = [p \in Procs |-> IdleCall]
    /\ calls = 0
    /\ lastQuery = NoQuery
    /\ everStored = {}
    /\ env = Credentials
    /\ exitCode = "none"

NextLive ==
    \/ Start
    \/ StartReturns
    \/ CronFires
    \/ \E r \in Slots : App_Step(r)

\* The process starts, node-cron keeps firing the callback, every awaited
\* call settles, and a collaborator that is called again and again does
\* not fail every time.
FairLive ==
    /\ WF_vars(Start) /\ WF_vars(StartReturns) /\ WF_vars(CronFires)
    /\ \A r \in Slots :
          /\ WF_vars(App_Step(r))
          /\ SF_vars(App_FetchOk(r))
          /\ SF_vars(App_RewriteOk(r))
          /\ SF_vars(App_PublishOk(r))

SpecLive == InitLive /\ [][NextLive]_vars /\ FairLive

\* SpecRecover: app.js and the posted.json variant under cron scheduling for
\* as long as one likes, with the throwing ledger writes of SpecFaults, on
\* a feed of two items that both have a link.
InitRecover ==
    /\ variant \in {"app", "json"}
    /\ mode = "cron"
    /\ feed = <<ItemA, ItemB>>
    /\ posted = <<>>
    /\ postedFile = JsonStringify(<<>>)
    /\ main = "down"
    /\ run = [r \in Slots |-> IdleRun]
    /\ runs = 0
    /\ crashes = 0
    /\ pubOk = [x \in ItemSet |-> "never"]
    /\ marked = [x \in ItemSet |-> "never"]
    /\ pubAtCrash = {}
    /\ skipped = {}
    /\ keyUse = EmptyKeyUsage
    /\ clock = 0
    /\ keyPicks = NoPicks
    /\ call = [p \in Procs |-> IdleCall]
    /\ calls = 0
    /\ lastQuery = NoQuery
    /\ everStored = {}
    /\ env = Credentials
    /\ exitCode = "none"

NextRecover ==
    \/ Start
    \/ StartReturns
    \/ Json_Start
    \/ CronFires
    \/ \E r \in Slots : App_Step(r)
    \/ \E r \in Slots : App_MarkPostedThrows(r)
    \/ \E r \in Slots : Json_Step(r)
    \/ \E r \in Slots : Json_WriteThrows(r)

\* The process starts, node-cron keeps firing the callback, and every
\* awaited call settles, one way or the other.
FairRecover ==
    /\ WF_vars(Start) /\ WF_vars(StartReturns) /\ WF_vars(Json_Start) /\ WF_vars(CronFires)
    /\ \A r \in Slots :
          /\ WF_vars(App_Step(r) \/ App_MarkPostedThrows(r))
          /\ WF_vars(Json_Step(r) \/ Json_WriteThrows(r))

SpecRecover == InitRecover /\ [][NextRecover]_vars /\ FairRecover

----------------------------------------------------------------------------
(* Claims about the ledger store (checked under SpecLedger)                *)

\* What the store holds now.
Stored == IF variant = "json" THEN Range(postedFile) ELSE Range(posted)

\* Some row carries the entry's guid in column guid, or its link in column link.
KeyPresent(tbl, e) ==
    \E i \in 1..Len(tbl) :
        \/ e.guid # Undefined /\ tbl[i].guid = e.guid
        \/ e.link # Undefined /\ tbl[i].link = e.link

\* C4 (as claimed): in every reachable state of the ledger no two entries
\* share a guid and no two entries share a link.
C4_NoTwoEntriesShareGuidOrLink ==
    /\ \A i, j \in 1..Len(posted) :
          i < j =>
            /\ ~(posted[i].guid # Null /\ posted[i].guid = posted[j].guid)
            /\ ~(posted[i].link # Null /\ posted[i].link = posted[j].link)
    /\ LET list == JsonParse(postedFile)
       IN \A i, j \in 1..Len(list) :
             i < j => ~(list[i] # Null /\ list[i] = list[j])

C6_HasBeenPostedIffSomeRowMatches ==
    (lastQuery.st = "set" /\ lastQuery.key # Undefined) =>
        ( lastQuery.res <=>
            \E i \in 1..Len(posted) :
                posted[i].guid = lastQuery.key \/ posted[i].link = lastQuery.key )

\* C6 witness: a query answered true for a key that only column link holds.
C6_Witness ==
    /\ lastQuery.st = "set"
    /\ lastQuery.res
    /\ \E i \in 1..Len(posted) : posted[i].link = lastQuery.key
    /\ \A i \in 1..Len(posted) : posted[i].guid # lastQuery.key

\* A stored entry that carries an identity.
Identified(s) == IF variant = "json" THEN s.t = "string" ELSE s.guid # Null

\* Number of stored entries for the identity of entry e.
EntriesFor(e) ==
    IF variant = "json"
    THEN Cardinality({i \in 1..Len(postedFile) :
                        postedFile[i] = [t |-> "string", v |-> e.link]})
    ELSE Cardinality({i \in 1..Len(posted) : posted[i] = BoundRow(e)})

\* C7 (as claimed): when two processes insert an entry for the same identity
\* concurrently, both calls return success, the ledger ends with exactly one
\* entry for that identity, and no entry of another item is lost.
C7_ConcurrentInsertYieldsOneEntry ==
    /\ \A p \in Procs : call[p].ov => call[p].st # "error"
    /\ \A p, q \in Procs :
          ( /\ p # q
            /\ call[p].st = "ok" /\ call[q].st = "ok"
            /\ call[p].ov /\ call[q].ov
            /\ call[p].fresh /\ call[q].fresh
            /\ SameIdentity(call[p].e, call[q].e) )
          => EntriesFor(call[p].e) = 1
    /\ \A p \in Procs :
          (call[p].st = "ok" /\ call[p].ov) =>
              {s \in everStored : Identified(s)} \subseteq Stored

----------------------------------------------------------------------------
(* Claims about runs (checked under Spec)                                  *)

\* The items the selection of a run sees when every feed is fetched.
Visible ==
    CASE variant \in {"app", "brand"} -> Take(feed, MAX_ITEMS_PER_RUN)
      [] variant = "multi" -> Take(FeedItems(1), FeedSlice) \o Take(FeedItems(2), FeedSlice)
      [] OTHER -> feed

\* The variant's "already posted" test, on the ledger as it is now.
Eligible(x) ==
    CASE variant = "app" -> ~AppPosted(posted, x)
      [] variant = "brand" -> ~BrandPosted(posted, x)
      [] variant = "multi" -> ~hasBeenPosted(posted, MultiKey(x))
      [] OTHER -> ~Includes(JsonParse(postedFile), x.link)

\* How often the selection of a run starting now would return item x.
TimesSelected(x) ==
    Cardinality({i \in DOMAIN Visible : Visible[i] = x /\ Eligible(Visible[i])})

\* The entry the variant commits for item x is in the ledger.
InLedger(x) ==
    CASE variant = "app" -> BoundRow(AppEntry(x)) \in Range(posted)
      [] variant = "brand" -> BoundRow(BrandEntry(x)) \in Range(posted)
      [] variant = "multi" -> BoundRow(MultiEntry(x)) \in Range(posted)
      [] OTHER -> x.link # Undefined /\ Includes(JsonParse(postedFile), x.link)

\* C1 (as claimed): with runs one after the other on the same feed output
\* and no crash, no item is published a second time and no run ends on a
\* ledger error, whatever the item's shape.
C1_NoSecondPublishAcrossRuns ==
    (mode = "once" /\ crashes = 0) =>
        /\ \A x \in ItemSet : pubOk[x] # "again"
        /\ \A r \in Slots : run[r].err # "ledger"

\* C2 (as claimed): no run calls publish for an item whose publish had
\* returned success before the process crashed.
C2_NoRepublishAfterCrash ==
    \A r \in Slots : run[r].pc = "publish" => Cur(r) \notin pubAtCrash

\* C3 (as claimed): at most one run is active at any time.
C3_AtMostOneRunActive == Cardinality({r \in Slots : Active(r)}) <= 1

\* C8 (as claimed): no run returns on an item whose stage failed while
\* items behind it in the queue are left unprocessed.
C8_StageFailureNeverAbortsRun == \A r \in Slots : ~run[r].cut

\* C9: an item whose processing ended without a commit has no entry in the
\* ledger and is returned, exactly once, by the selection of a run that sees
\* the feed.
C9_SkippedItemStaysEligible ==
    \A x \in skipped : ~InLedger(x) /\ TimesSelected(x) = 1

\* C9 witness: runs one after the other, no crash; the item a run skipped is
\* the one a later run is working on.
C9_Witness ==
    /\ mode = "once" /\ crashes = 0 /\ runs > 1
    /\ OnItem(1) /\ Cur(1) \in skipped
    /\ ~InLedger(Cur(1))

\* C10 (as claimed): in the variants with markPosted, with runs one after the
\* other and no crash, markPosted is reached only for an item whose publish
\* returned success, and at most once per item.
C10_OneCommitPerPublishedItem ==
    (variant # "json" /\ mode = "once" /\ crashes = 0) =>
        \A x \in ItemSet :
            /\ marked[x] # "again"
            /\ marked[x] # "never" => pubOk[x] # "never"

\* C11 (as claimed): the ledger only grows: no step of any run removes or
\* changes an entry the ledger holds.
C11_LedgerOnlyGrows == [][Stored \subseteq Stored']_vars

----------------------------------------------------------------------------
(* Claims about the selection of work (checked under SpecFeeds and Spec)   *)

\* The id of a feed item: the feed's identifier, else the link, else the
\* title.
FeedItemId(x) == JsOr(x.guid, JsOr(x.link, x.title))

\* The guids and links the ledger holds.
LedgerKeys ==
    IF variant = "json" THEN Range(JsonParse(postedFile)) \ {Null}
    ELSE ({posted[i].guid : i \in 1..Len(posted)}
            \cup {posted[i].link : i \in 1..Len(posted)}) \ {Null}

\* The id or the link of item x is the guid or the link of a ledger entry.
KnownToLedger(x) == ({FeedItemId(x), x.link} \ {Undefined}) \cap LedgerKeys # {}

\* C12 (as claimed): with runs one after the other, no pipeline stage runs
\* for an item whose id or link is the guid or the link of a ledger entry
\* (from the item's own commit on, the run only sleeps).
C12_NoStageForItemKnownToLedger ==
    mode = "once" =>
        \A r \in Slots : OnItem(r) /\ run[r].pc # "sleep" => ~KnownToLedger(Cur(r))

\* The item has a publishedAt: its pubDate is there and is a date.
HasPublishedAt(x) == JsOr(x.pubDate, Null) # Null /\ DateGetTime(x.pubDate) # NaN

\* s is ordered by publishedAt descending, the items without one last.
NewestFirst(s) ==
    \A i, j \in DOMAIN s :
        i < j /\ HasPublishedAt(s[j]) =>
            HasPublishedAt(s[i]) /\ PubTime(s[i]) >= PubTime(s[j])

\* C13 (as claimed): when a multi-feed run has fetched its feeds, the
\* unposted items are in publishedAt order, newest first and the items
\* without a publishedAt last, and the run goes on with the first of them.
C13_NewestEligibleItemChosen ==
    [][\A r \in Slots :
          variant = "multi" /\ run[r].pc = "fetch" /\ run'[r].pc = "generate" =>
              \E items \in {run[r].queue, run[r].queue \o Take(FeedItems(run[r].k), FeedSlice)} :
                  \E s \in SortOutcomes(Unposted(posted, items)) :
                      /\ s # <<>>
                      /\ run'[r].queue = <<s[1]>>
                      /\ NewestFirst(s)]_vars

----------------------------------------------------------------------------
(* Claims about one run of app.js                                          *)

\* C14: a run of app.js works on its items one after another in the order of
\* its queue: it moves to a later item only from the sleep that follows the
\* commit of the current one or on the failure that skips it, every item it
\* passes over is in the ledger, and each commit appends the entry of the
\* item the committing run is on.
C14_ItemsOneAfterAnother ==
    [][variant = "app" =>
          /\ \A r \in Slots :
                OnItem(r) /\ run'[r].pc \notin {"idle", "done", "fetch"} =>
                    /\ run'[r].queue = run[r].queue
                    /\ run'[r].idx >= run[r].idx
                    /\ run'[r].idx > run[r].idx =>
                          /\ run[r].pc = "sleep" \/ run'[r].fail = run[r].idx
                          /\ \A i \in (run[r].idx + 1)..(run'[r].idx - 1) :
                                AppPosted(posted, run[r].queue[i])
          /\ posted' # posted =>
                \E r \in Slots :
                    /\ run[r].pc = "posted"
                    /\ posted' = Append(posted, BoundRow(AppEntry(Cur(r))))]_vars

\* A run has committed its first and its second item, in that order.
C14_Witness ==
    /\ variant = "app"
    /\ \E r \in Slots :
          /\ run[r].pc = "sleep" /\ run[r].idx = 2
          /\ posted = <<BoundRow(AppEntry(run[r].queue[1])),
                        BoundRow(AppEntry(run[r].queue[2]))>>

\* The awaited calls of one loop iteration, in the order of the code (the
\* image-branding variant has them all).
Stages == <<"page", "brand", "upload", "rewrite", "meta", "publish", "posted", "sleep">>
StageRank(pc) == CHOOSE i \in DOMAIN Stages : Stages[i] = pc

\* One step of a run of app.js or of the image-branding variant: the queue
\* holds at most MAX_ITEMS_PER_RUN items, the run is on one position of it,
\* it moves only to a later stage of that position or to a later position,
\* and it is the run at the publish call, then at the commit, that changes
\* what is published and what the ledger holds.
CappedStep(r) ==
    /\ Len(run'[r].queue) <= MAX_ITEMS_PER_RUN
    /\ run'[r].pc \notin {"idle", "done", "fetch"} =>
          run'[r].idx \in 1..Len(run'[r].queue)
    /\ (OnItem(r) /\ run'[r].pc \notin {"idle", "done", "fetch"} /\ run'[r] # run[r]) =>
          \/ run'[r].idx > run[r].idx
          \/ /\ run'[r].idx = run[r].idx
             /\ StageRank(run'[r].pc) > StageRank(run[r].pc)
    /\ (pubOk' # pubOk /\ run'[r] # run[r]) =>
          (run[r].pc = "publish" /\ run'[r].pc = "posted")
    /\ (posted' # posted /\ run'[r] # run[r]) => run[r].pc = "posted"

\* C15: in one run no more than MAX_ITEMS_PER_RUN items go through the
\* pipeline, publish call and ledger insert included: the queue of the run
\* is that short, and no position of it is worked on twice.
C15_AtMostMaxItemsPerRun ==
    [][(variant = "app" \/ variant = "brand") => \A r \in Slots : CappedStep(r)]_vars

\* A run has published and committed MAX_ITEMS_PER_RUN items of a feed that
\* lists more.
C15_Witness ==
    /\ variant \in {"app", "brand"}
    /\ Len(feed) > MAX_ITEMS_PER_RUN
    /\ Len(posted) = MAX_ITEMS_PER_RUN
    /\ runs = 1
    /\ \E r \in Slots : run[r].pc = "sleep" /\ run[r].idx = MAX_ITEMS_PER_RUN

\* One step of a run under MODE=once: from the publish that succeeded the
\* run only commits, sleeps and returns.
OnceStepAfterPublish(r) ==
    /\ run[r].pc = "posted" => run'[r].pc \in {"posted", "sleep", "done", "idle"}
    /\ run[r].pc = "sleep" => run'[r].pc \in {"sleep", "done", "idle"}

\* And it does not return on an item it skipped while items are left in its
\* queue.
OnceStep(r) == OnceStepAfterPublish(r) /\ ~run'[r].cut

\* C16 (as claimed): under MODE=once a run of app.js or of the
\* image-branding variant returns right after the first item it publishes
\* (one publish, one insert, no later item looked at), and an item skipped
\* before that does not end the run.
C16_OnceReturnsAfterFirstPublish ==
    [][(mode = "once" /\ (variant = "app" \/ variant = "brand")) =>
          \A r \in Slots : OnceStep(r)]_vars

----------------------------------------------------------------------------
(* Claims about progress (checked under SpecLive)                          *)

\* C17 (as claimed): with the feed listing the same items at every fetch,
\* every feed item that is not in the ledger is published in the end.
C17_EveryFeedItemEventuallyPublished ==
    \A x \in ItemSet :
        (x \in Range(feed) /\ ~InLedger(x)) ~> (pubOk[x] # "never")

----------------------------------------------------------------------------
(* Claims about the key rotation (checked under SpecKeys)                  *)

\* lastUsed and totalUsed of a configured key as getNextAPIKey reads them:
\* 0 for a key without a row.
LastUsedAt(use, key) == use[hashAPIKey(key)].last_used
TotalUses(use, key) == use[hashAPIKey(key)].total_used

\* Run r enters generateArticleAndMetadata in this step.
Selects(r) == run[r].pc # "generate" /\ run'[r].pc = "generate"

\* C18: the key getNextAPIKey returns is a configured one, and no configured
\* key has a lastUsed older than its lastUsed at the time of the call.
C18_ReturnsLeastRecentlyUsed ==
    [][\A r \in Slots :
          Selects(r) =>
              /\ \E i \in DOMAIN OPENAI_API_KEYS : run'[r].key = OPENAI_API_KEYS[i]
              /\ \A i \in DOMAIN OPENAI_API_KEYS :
                    LastUsedAt(keyUse, run'[r].key) <= LastUsedAt(keyUse, OPENAI_API_KEYS[i])]_vars

\* The first key has a row, the second had none and has been returned, at a
\* later time than the first.
C18_Witness ==
    \E r \in Slots :
        /\ run[r].pc = "generate" /\ run[r].key = OPENAI_API_KEYS[2]
        /\ keyPicks = <<1, 1>>
        /\ 0 < LastUsedAt(keyUse, OPENAI_API_KEYS[1])
        /\ LastUsedAt(keyUse, OPENAI_API_KEYS[1]) < LastUsedAt(keyUse, OPENAI_API_KEYS[2])

\* C19 (as claimed): among the configured keys that tie on the oldest
\* lastUsed, the key getNextAPIKey returns has the lowest totalUsed, and
\* among those that tie on it too it is the first configured.
C19_TieGoesToLowestTotalUses ==
    LET key == LeastRecentlyUsed(keyUse)
    IN \A i \in DOMAIN OPENAI_API_KEYS :
          LastUsedAt(keyUse, OPENAI_API_KEYS[i]) = LastUsedAt(keyUse, key) =>
              \/ TotalUses(keyUse, key) < TotalUses(keyUse, OPENAI_API_KEYS[i])
              \/ /\ TotalUses(keyUse, key) = TotalUses(keyUse, OPENAI_API_KEYS[i])
                 /\ KeyIndex(key) <= i

\* One step seen from the key_usage table: a run that enters
\* generateArticleAndMetadata has, with the key it holds when the completion
\* is requested, a row whose total_used is one more than before and whose
\* last_used is the time of the call, the other rows being untouched; and
\* after the step total_used of every configured key is the number of
\* times the key was returned.
CountedStep ==
    /\ \A r \in Slots :
          Selects(r) =>
              LET h == hashAPIKey(run'[r].key)
              IN /\ keyUse'[h].present
                 /\ keyUse'[h].total_used = keyUse[h].total_used + 1
                 /\ keyUse'[h].last_used = clock'
                 /\ \A g \in KeyHashes \ {h} : keyUse'[g] = keyUse[g]
    /\ \A i \in DOMAIN OPENAI_API_KEYS :
          keyUse'[hashAPIKey(OPENAI_API_KEYS[i])].total_used = keyPicks'[i]

\* C20: every selection adds exactly 1 to the totalUsed of the key selected
\* and sets its lastUsed to the current time, before the completion is
\* requested with the key; totalUsed is the number of selections of the key.
C20_EverySelectionCountedOnce == [][CountedStep]_vars

\* A key has been selected for the second time and the completion is being
\* requested with it.
C20_Witness ==
    \E r \in Slots :
        /\ run[r].pc = "generate"
        /\ keyPicks[KeyIndex(run[r].key)] = 2
        /\ TotalUses(keyUse, run[r].key) = 2
        /\ LastUsedAt(keyUse, run[r].key) = clock

\* C21 (as claimed): two selections that run at the same time, each between
\* its reading of the usage rows and its writing of the row of the key it
\* chose, have not chosen the same key.
C21_ConcurrentSelectionsDiffer ==
    \A p, q \in Slots :
        (p # q /\ run[p].pc = "select" /\ run[q].pc = "select") => run[p].key # run[q].key

\* One step seen from column total_tokens of the row of hash h: it stays, or
\* a run that held the key of h has had its completion and the tokens of
\* that completion are added.
TokensStep(h) ==
    \/ keyUse'[h].total_tokens = keyUse[h].total_tokens
    \/ \E r \in Slots :
          /\ run[r].pc = "generate" /\ run'[r].pc # "generate"
          /\ hashAPIKey(run[r].key) = h
          /\ \E t \in TokenChoices :
                keyUse'[h].total_tokens = keyUse[h].total_tokens + t

\* C22 (as claimed): total_tokens of a key changes only by the tokens that
\* updateTokenUsage records for it: it is the sum of the costs recorded,
\* never decreases, and no selection of the key resets it.
C22_TotalTokensIsSumOfCosts == [][\A h \in KeyHashes : TokensStep(h)]_vars

\* A step in which generateArticleAndMetadata, entered by run r with a key
\* selected, throws: the run logs "Article generation failed" and returns.
GenerationFails(r) ==
    variant = "multi" /\ run[r].pc = "generate" /\ run'[r].pc = "done"

FailedAttemptStep(r) ==
    LET key == run[r].key
        h == hashAPIKey(key)
    IN /\ TotalUses(keyUse', key) = keyPicks[KeyIndex(key)]
       /\ keyUse'[h].total_tokens = keyUse[h].total_tokens
       /\ pubOk' = pubOk
       /\ posted' = posted

\* C23 (as claimed): when the generation fails after a key was selected,
\* the key's total_used counts the attempt, no tokens are added to its row
\* for it, and the item is left without a publish call or a ledger row.
C23_FailedAttemptCountedNotCharged ==
    [][\A r \in Slots : GenerationFails(r) => FailedAttemptStep(r)]_vars

\* An item of the image-branding variant that offers no place to look for an
\* image: no link to fetch a page from, no <img> in its content.
Imageless(item) == JsOr(item.link, Null) = Null /\ ~item.contentImg

\* What skipping the item of run r leaves: nothing published, the ledger as
\* it was, the item noted as left out, and the run on the first later item
\* of its queue that is not in the ledger and may have an image, at the
\* first call made for it; the run returns when there is no such item.
MovesOn(r) ==
    LET q == run[r].queue
        later == {j \in (run[r].idx + 1)..Len(q) :
                    ~BrandPosted(posted, q[j]) /\ ~Imageless(q[j])}
    IN /\ pubOk' = pubOk
       /\ posted' = posted /\ postedFile' = postedFile
       /\ marked[Cur(r)] = "never" => Cur(r) \in skipped'
       /\ IF later = {}
          THEN run'[r].pc = "done" /\ run'[r].err = "none"
          ELSE /\ run'[r].queue = q
               /\ run'[r].idx \in later
               /\ \A j \in later : run'[r].idx <= j
               /\ run'[r].pc \in {"page", "brand"}

\* A step of run r of the process that stays up, from the stage `from`,
\* that does not take the run to the stage `to` of the same item.
LeavesStage(r, from, to) ==
    /\ run[r].pc = from
    /\ main' # "down"
    /\ run'[r] # run[r]
    /\ run'[r] # [run[r] EXCEPT !.pc = to]

\* C24: in the image-branding variant an item for which no image is found,
\* in the page fetched from its link or in its content, is skipped: no
\* rewrite, no publish call, no ledger row, and the run goes on with the
\* next item; an item with no link and no image in its content is never
\* worked on at all.
C24_NoImageItemSkipped ==
    [][variant = "brand" =>
          \A r \in Slots :
             /\ LeavesStage(r, "page", "brand") => MovesOn(r)
             /\ run'[r].pc \notin {"idle", "done", "fetch"} =>
                   ~Imageless(run'[r].queue[run'[r].idx])]_vars

\* The first item of the feed had no link and no image and was passed over
\* with nothing published or stored; the run fetches the page of the second.
C24_Witness ==
    /\ variant = "brand"
    /\ feed = <<ItemE, ItemA>>
    /\ ItemE \in skipped
    /\ Published = {} /\ posted = <<>>
    /\ \E r \in Slots : run[r].pc = "page" /\ run[r].idx = 2 /\ Cur(r) = ItemA

\* C30: when processAndBrandImage or uploadToImgur returns null the item is
\* skipped: no rewrite, no publish call, no ledger row, the run does not
\* come back to the item and goes on with the next one.
C30_BrandingFailureSkipsItem ==
    [][variant = "brand" =>
          \A r \in Slots :
             /\ LeavesStage(r, "brand", "upload") => MovesOn(r)
             /\ LeavesStage(r, "upload", "rewrite") => MovesOn(r)]_vars

\* The first item of the feed has its image in its content and no link, so
\* that an image was found for it; it was skipped with nothing published or
\* stored, and the run is on the second item.
C30_Witness ==
    /\ variant = "brand"
    /\ feed = <<ItemC, ItemB>>
    /\ ItemC \in skipped
    /\ Published = {} /\ posted = <<>>
    /\ \E r \in Slots : run[r].pc = "page" /\ run[r].idx = 2 /\ run[r].fail = 1

\* The environment lacks a credential that publishing depends on: the
\* OpenAI key or the Blogger OAuth configuration, and the Imgur client id
\* in the image-branding variant.
CredentialMissing ==
    \/ {"openai", "blogger"} \ env # {}
    \/ variant = "brand" /\ "imgur" \notin env

\* C25 (as claimed): with a required credential missing the process is
\* never up: no run is started, nothing is fetched, rewritten, published or
\* stored, and when the process has ended its exit code is not 0.
C25_MissingCredentialStopsStartup ==
    CredentialMissing =>
        /\ main = "down" /\ runs = 0
        /\ \A r \in Slots : run[r].pc = "idle"
        /\ Published = {} /\ posted = <<>> /\ postedFile = JsonStringify(<<>>)
        /\ exitCode \in {"none", "1"}

\* One step seen from the scheduling of runs.  A run is started by the
\* start of the process, as its first run, or by a cron tick of a process
\* in cron mode; a process in MODE=once never schedules anything, and once
\* its run has returned the one thing it does is end, with exit code 0;
\* a process ends in no other way, unless it is killed.
ScheduledStep ==
    /\ runs' # runs =>
          /\ runs' = runs + 1
          /\ \/ main = "down" /\ main' # "down" /\ run'[1].pc = "fetch"
                /\ \A r \in Slots \ {1} : run'[r].pc = "idle"
             \/ mode = "cron" /\ main = "cron" /\ main' = "cron"
    /\ (main = "down" /\ main' # "down") => runs' = runs + 1
    /\ mode = "once" =>
          /\ main' # "cron"
          /\ (main = "initial" /\ run[1].pc = "done") => main' = "down"
    /\ (main # "down" /\ main' = "down") =>
          \/ mode = "once" /\ run[1].pc = "done" /\ exitCode' = "0"
          \/ crashes' = crashes + 1 /\ exitCode' = "signal"

\* C26: under MODE=once the process makes one run and then ends with exit
\* code 0, whatever the run came to; under cron it makes one run when it
\* starts and every further run on a cron tick.
C26_OnceRunsOnceCronRunsOnTicks == [][ScheduledStep]_vars

\* A process under MODE=once has ended with exit code 0 after a run in
\* which the feed could not be fetched.
C26_Witness ==
    /\ mode = "once" /\ main = "down" /\ exitCode = "0"
    /\ runs = 1 /\ crashes = 0
    /\ run[1].pc = "done" /\ run[1].err = "fetch"

\* One step of run r of the multi-feed variant out of the fetch of a feed,
\* in a process that stays up.  Before the last feed the run goes on to the
\* next feed with the items it had, and those of this feed when the fetch
\* succeeded.  After the last feed it returns with nothing to do only if
\* nothing it holds is unposted; otherwise it requests the article for an
\* unposted item of what it holds.
FeedFetchedStep(r) ==
    LET had == run[r].queue
        got == had \o Take(FeedItems(run[r].k), FeedSlice)
    IN IF run[r].k < NumFeeds
       THEN /\ run'[r].pc = "fetch"
            /\ run'[r].k = run[r].k + 1
            /\ run'[r].queue \in {had, got}
       ELSE \/ /\ run'[r].pc = "done" /\ run'[r].err = "none"
               /\ Unposted(posted, had) = <<>>
            \/ /\ run'[r].pc = "generate"
               /\ \E all \in {had, got} :
                     run'[r].queue[run'[r].idx] \in Range(Unposted(posted, all))

\* C27: in the multi-feed variant a feed that cannot be fetched or parsed
\* does not end the run: the items of the feeds that were fetched stay in
\* the selection, and the run ends with nothing to do only when none of
\* them is unposted.
C27_FailedFeedDoesNotAbortRun ==
    [][variant = "multi" =>
          \A r \in Slots :
             (run[r].pc = "fetch" /\ main' # "down" /\ run'[r] # run[r]) =>
                 FeedFetchedStep(r)]_vars

\* The first feed lists two unposted items with a date and could not be
\* fetched; the run works on the undated item of the second feed.
C27_Witness ==
    /\ variant = "multi"
    /\ feed = <<ItemC, ItemA, ItemB>>
    /\ posted = <<>>
    /\ \E r \in Slots : run[r].pc = "generate" /\ Cur(r) = ItemB

\* A step in which run r computes what it works on next: out of the fetch,
\* or on to a later item of its queue, or to the end of the queue; the
\* commit of the item just published is not such a step.
SelectsStep(r) ==
    /\ run'[r] # run[r]
    /\ run[r].pc # "posted"
    /\ run[r].pc = "fetch" \/ run'[r].idx > run[r].idx \/ run'[r].pc = "done"

\* C28: the steps in which a run computes its eligible items (the calls of
\* hasBeenPosted, the filter, the sort) leave the ledger as it is, and
\* leave the key usage rows as they are: only when the multi-key variant
\* has found an item does the same step go on into getNextAPIKey, which
\* writes the row of the key it returns.
C28_SelectionReadsOnly ==
    [][\A r \in Slots :
          SelectsStep(r) =>
              /\ posted' = posted /\ postedFile' = postedFile
              /\ run[r].pc = "fetch" =>
                    keyUse' = IF run'[r].pc = "generate"
                              THEN KeyUsed(keyUse, run'[r].key, clock')
                              ELSE keyUse]_vars

\* Under MODE=once a second run has passed over the item that the first
\* one committed and works on the one after it; the ledger holds the one
\* row it held.
C28_Witness ==
    /\ variant = "app" /\ mode = "once"
    /\ runs = 2 /\ crashes = 0
    /\ Len(posted) = 1
    /\ \E r \in Slots :
          /\ run[r].pc \in {"page", "rewrite"} /\ run[r].idx = 2
          /\ AppPosted(posted, run[r].queue[1])

\* The non-empty contiguous parts of a key.
PartsOf(key) == {SubSeq(key, i, j) : i, j \in DOMAIN key} \ {<<>>}

\* The values of column key_hash in table key_usage (the same values go to
\* posted.openai_key_used and to the log of getNextAPIKey).
StoredFingerprints == {h \in KeyHashes : keyUse[h].present}

\* C29 (as claimed): nothing that is stored or logged for a key gives back
\* the key or a part of it: no stored fingerprint decodes to a part of a
\* configured key.
C29_FingerprintRevealsNoPartOfKey ==
    \A h \in StoredFingerprints :
        \A i \in DOMAIN OPENAI_API_KEYS : atob(h) \notin PartsOf(OPENAI_API_KEYS[i])


-----------------------------------------------------------------------------
-----------------------------------------------------------------------------
\* The duplicate check the variant applies to item x, on the ledger as given.
DupCheck(tbl, file, x) ==
    CASE variant = "app" -> AppPosted(tbl, x)
      [] variant = "brand" -> BrandPosted(tbl, x)
      [] variant = "multi" -> hasBeenPosted(tbl, MultiKey(x))
      [] OTHER -> Includes(JsonParse(file), x.link)

\* The ledger as given holds what the ledger write of the variant stores
\* for item x: its row, or in posted.json its link (null for no link).
Recorded(tbl, file, x) ==
    CASE variant = "app" -> BoundRow(AppEntry(x)) \in Range(tbl)
      [] variant = "brand" -> BoundRow(BrandEntry(x)) \in Range(tbl)
      [] variant = "multi" -> BoundRow(MultiEntry(x)) \in Range(tbl)
      [] OTHER -> Includes(JsonParse(file), IF x.link = Undefined THEN Null ELSE x.link)

\* C32: a step out of the point between a successful publish and the ledger
\* write, in a process that stays up, is one of two: the write ran without an
\* error (the ledger holds the item's row or link, or the statement was
\* ignored for an item the duplicate check finds); or it threw, and then the
\* ledger is what it was, the item is not marked as recorded, the duplicate
\* check answers for it what it answered before, and the run has ended in
\* its catch, which logs the error.
C32_LedgerFailureReportedNotRecorded ==
    [][\A r \in Slots :
          (run[r].pc = "posted" /\ main' # "down" /\ run'[r] # run[r]) =>
             \/ /\ run'[r].err = "none"
                /\ \/ Recorded(posted', postedFile', Cur(r))
                   \/ DupCheck(posted', postedFile', Cur(r))
                /\ marked'[Cur(r)] # "never"
             \/ /\ run'[r].pc = "done" /\ run'[r].err = "ledger"
                /\ <<posted, postedFile>>' = <<posted, postedFile>>
                /\ marked' = marked
                /\ DupCheck(posted', postedFile', Cur(r)) = DupCheck(posted, postedFile, Cur(r))]_vars

\* A run has ended in its catch on a ledger error, and an item that was
\* published is in no ledger entry and was never marked: the duplicate check
\* does not find it.
C32_Witness ==
    /\ \E r \in Slots : run[r].pc = "done" /\ run[r].err = "ledger"
    /\ \E x \in ItemSet :
          /\ pubOk[x] # "never" /\ marked[x] = "never"
          /\ ~DupCheck(posted, postedFile, x)

-----------------------------------------------------------------------------
\* Run r stops working on its current item in this step.
ItemLeft(r) == OnItem(r) /\ (run'[r].pc = "done" \/ run'[r].idx # run[r].idx)

\* C33 (as claimed): in a process that stays up, a run stops working on an
\* item only with an outcome of that item: after its publish, commit and
\* sleep (Published), or by a skip of that item (no image, transform
\* failed, publish failed) that the loop records for it; never through the
\* catch of the whole run, whose log record names no item and no outcome.
C33_EveryStartedItemGetsItsOutcome ==
    [][\A r \in Slots :
          (ItemLeft(r) /\ main' # "down") =>
             /\ run'[r].err = "none"
             /\ \/ run[r].pc = "sleep"
                \/ Cur(r) \in skipped'
                \/ marked[Cur(r)] # "never"]_vars

-----------------------------------------------------------------------------
\* C34 (as claimed): a run goes from an item it has worked on to a later
\* item of its queue only out of the pacing sleep.
C34_SleepBetweenItems ==
    [][\A r \in Slots :
          (OnItem(r) /\ main' # "down" /\ run'[r].pc \notin {"idle", "done"}
             /\ run'[r].idx > run[r].idx) =>
                run[r].pc = "sleep"]_vars

-----------------------------------------------------------------------------
\* C35: in the multi-key variant the key a run generates with is the one
\* getNextAPIKey selects as the run enters the generation; the tokens of
\* the completion are added to that key's row of key_usage and kept by the
\* run; neither changes up to the commit; and a row the commit adds to the
\* ledger holds the fingerprint of that key and that token count.
C35_LedgerRowRecordsKeyAndTokens ==
    [][variant = "multi" =>
         \A r \in Slots :
            LET h == hashAPIKey(run[r].key)
            IN /\ (run[r].pc = "fetch" /\ run'[r].pc = "generate") =>
                     run'[r].key = LeastRecentlyUsed(keyUse)
               /\ (run[r].pc = "generate" /\ run'[r].pc = "image") =>
                     /\ run'[r].key = run[r].key
                     /\ keyUse'[h].total_tokens = keyUse[h].total_tokens + run'[r].tok
                     /\ \A g \in KeyHashes \ {h} : keyUse'[g] = keyUse[g]
               /\ (run[r].pc \in {"image", "publish"} /\ run'[r].pc \in {"publish", "posted"}) =>
                     run'[r].key = run[r].key /\ run'[r].tok = run[r].tok
               /\ (run[r].pc = "posted" /\ posted' # posted) =>
                     /\ Len(posted') = Len(posted) + 1
                     /\ SubSeq(posted', 1, Len(posted)) = posted
                     /\ posted'[Len(posted')].openai_key_used = h
                     /\ posted'[Len(posted')].tokens_used = run[r].tok]_vars

\* The ledger holds a row written with the second configured key for a
\* completion that cost a token, after a row written with the first.
C35_Witness ==
    /\ variant = "multi"
    /\ Len(posted) = 2
    /\ posted[1].openai_key_used = hashAPIKey(OPENAI_API_KEYS[1])
    /\ posted[2].openai_key_used = hashAPIKey(OPENAI_API_KEYS[2])
    /\ posted[2].tokens_used = 1

-----------------------------------------------------------------------------
\* C36 (as claimed): right after the ledger write of an item has returned,
\* the duplicate check of the same variant finds that item.
C36_DuplicateCheckFindsCommittedItem ==
    [][\A r \in Slots :
          (run[r].pc = "posted" /\ main' # "down" /\ run'[r].err = "none"
             /\ run'[r] # run[r]) =>
                DupCheck(posted', postedFile', Cur(r))]_vars

-----------------------------------------------------------------------------
\* The awaited calls of a run of the multi-feed variant once it has chosen
\* its item, in the order of the code.
MultiStages == <<"generate", "image", "publish", "posted", "sleep">>
MultiStageRank(pc) == CHOOSE i \in DOMAIN MultiStages : MultiStages[i] = pc

\* One step of a run of the multi-feed variant: past the fetch the run holds
\* one item; it goes only to a later stage of that item or returns; a failed
\* generation or publish makes it return; the set of published items changes
\* only by the run at the publish call and the ledger only by the run at the
\* commit, by at most one row.
SingleItemStep(r) ==
    /\ run'[r].pc \notin {"idle", "done", "fetch"} =>
          Len(run'[r].queue) = 1 /\ run'[r].idx = 1
    /\ (OnItem(r) /\ run'[r].pc \notin {"idle", "done"} /\ run'[r] # run[r]) =>
          /\ run'[r].queue = run[r].queue
          /\ MultiStageRank(run'[r].pc) > MultiStageRank(run[r].pc)
    /\ (OnItem(r) /\ run'[r].fail # 0 /\ run[r].fail = 0) => run'[r].pc = "done"
    /\ (pubOk' # pubOk /\ run'[r] # run[r]) =>
          (run[r].pc = "publish" /\ run'[r].pc = "posted")
    /\ (posted' # posted /\ run'[r] # run[r]) =>
          (run[r].pc = "posted" /\ Len(posted') = Len(posted) + 1)

\* C37: a run of the multi-feed variant attempts one item at most, ends when
\* its generation or its publish fails, and makes at most one publish call
\* and one ledger insert.
C37_OneItemPerRun ==
    [][variant = "multi" => \A r \in Slots : SingleItemStep(r)]_vars

\* A run has returned on a failed generation or publish while the ledger is
\* empty and the feeds list other unposted items; nothing was published.
C37_Witness ==
    /\ variant = "multi"
    /\ posted = <<>> /\ runs = 1
    /\ \A x \in ItemSet : pubOk[x] = "never"
    /\ \E r \in Slots : run[r].pc = "done" /\ run[r].cut = FALSE
    /\ skipped # {}

-----------------------------------------------------------------------------
\* C38: in app.js the items of a run are the first MAX_ITEMS_PER_RUN entries
\* of the feed, whatever the ledger holds, and an item at a later position
\* of the feed is not published.
C38_CapBeforeDuplicateCheck ==
    variant = "app" =>
        /\ \A r \in Slots : OnItem(r) => run[r].queue = Take(feed, MAX_ITEMS_PER_RUN)
        /\ \A x \in ItemSet :
              pubOk[x] # "never" => x \in Range(Take(feed, MAX_ITEMS_PER_RUN))

\* The feed lists more than MAX_ITEMS_PER_RUN items, the first
\* MAX_ITEMS_PER_RUN are in the ledger, every run the process could start has
\* returned without a failure, and the item behind them was never published.
C38_Witness ==
    /\ variant = "app" /\ mode = "cron" /\ crashes = 0
    /\ Len(feed) > MAX_ITEMS_PER_RUN
    /\ \A i \in 1..MAX_ITEMS_PER_RUN : AppPosted(posted, feed[i])
    /\ runs = MaxRuns
    /\ \A r \in Slots : run[r].pc = "done" /\ run[r].err = "none"
    /\ skipped = {}
    /\ pubOk[feed[Len(feed)]] = "never"

-----------------------------------------------------------------------------
\* A run has returned through the catch of processOnce / fetchAndPost.
FailedRun(r) == run[r].pc = "done" /\ run[r].err # "none"

\* C39: a run that ends on a failure (feed fetch, stage error, ledger
\* error) ends by returning: the step leaves the process up and without an
\* exit code; and under cron scheduling, whatever runs have failed, the
\* cron callback starts a run again and again.
C39_FailedRunLeavesCronRunning ==
    /\ [][\A r \in Slots :
             (~FailedRun(r) /\ FailedRun(r)') =>
                 (main' = main /\ main' # "down" /\ exitCode' = exitCode)]_vars
    /\ []<><<CronFires>>_vars

\* Under cron scheduling, with no two runs ever at the same time: an item
\* was published, its ledger write threw, and a later run is working on the
\* same item again.
C39_Witness ==
    /\ main = "cron"
    /\ run[2].pc = "idle"
    /\ OnItem(1) /\ run[1].pc \in {"rewrite", "publish"}
    /\ pubOk[Cur(1)] # "never" /\ marked[Cur(1)] = "never"
    /\ ~DupCheck(posted, postedFile, Cur(1))
====
